---------------------------- MODULE Spec2Model ----------------------------
(***************************************************************************)
(* The websocket synchronisation provider (WebsocketProvider): connection  *)
(* lifecycle with reconnection and backoff, the message router, the wire   *)
(* codec, and the local broadcast channel.                                 *)
(*                                                                         *)
(* Every handler of the provider is an operator from a provider record     *)
(* (the object's fields, the sockets it constructed, its pending retry     *)
(* timers and the effects of the running handler) to a provider record, so *)
(* that a handler calling another one is the composition of the two.  The  *)
(* actions apply one handler to the state.                                 *)
(***************************************************************************)
EXTENDS Integers, Sequences, FiniteSets, Bags, TLC

----------------------------------------------------------------------------
(* Bounds of the model.                                                    *)

\* sockets a provider may construct in one behaviour
MaxSockets == 3
\* sockets a provider may construct in the backoff specification
MaxAttempts == 7
\* sockets a provider may construct in the presence specification
MaxLinks == 2
\* the clock stops advancing at this time (ms)
MaxTime == 30001
\* awareness clocks stop growing here
MaxClock == 2
\* update handlers addSubdoc may create
MaxHandlers == 2
\* frames waiting in the event queue of one session
MaxInbox == 5
\* the largest message kind the router is given
MaxKind == 8

----------------------------------------------------------------------------
(* Program constants.                                                      *)

messageSync == 0
messageAwareness == 1
messageAuth == 2
messageQueryAwareness == 3

messageYjsSyncStep1 == 0
messageYjsSyncStep2 == 1
messageYjsUpdate == 2

messageReconnectTimeout == 30000
maxBackoffTime == 2500

\* the value of an absent / null awareness state
Null == 0

----------------------------------------------------------------------------
(* Small helpers.                                                          *)

Min(a, b) == IF a < b THEN a ELSE b

RECURSIVE Pow2(_)
Pow2(n) == IF n = 0 THEN 1 ELSE 2 * Pow2(n - 1)

RECURSIVE SetToSeq(_)
\* the elements of a set of naturals in ascending order
SetToSeq(S) ==
  IF S = {} THEN <<>>
  ELSE LET m == CHOOSE x \in S : \A y \in S : x <= y
       IN <<m>> \o SetToSeq(S \ {m})

Range(s) == {s[i] : i \in 1..Len(s)}

\* the map with no entry
EmptyMap == [x \in {} |-> 0]

----------------------------------------------------------------------------
(* Wire codec (lib0 encoding / decoding as the provider calls it).  An     *)
(* encoder is the sequence of bytes written so far; a decoder is a byte    *)
(* array and a 0-based position.  A read returns [ok, val, pos]; ok =      *)
(* FALSE is the exception the read throws at the end of the array.         *)

RECURSIVE VarUint(_)
VarUint(n) == IF n < 128 THEN <<n>> ELSE <<128 + (n % 128)>> \o VarUint(n \div 128)

writeVarUint(encoder, n) == encoder \o VarUint(n)

writeVarUint8Array(encoder, bytes) == writeVarUint(encoder, Len(bytes)) \o bytes

writeVarString(encoder, str) == writeVarUint8Array(encoder, str)

RECURSIVE readVarUintFrom(_, _, _, _)
readVarUintFrom(arr, pos, num, mult) ==
  IF pos >= Len(arr) THEN [ok |-> FALSE, val |-> 0, pos |-> pos]
  ELSE LET r == arr[pos + 1]
       IN IF r < 128 THEN [ok |-> TRUE, val |-> num + r * mult, pos |-> pos + 1]
          ELSE readVarUintFrom(arr, pos + 1, num + (r % 128) * mult, mult * 128)

readVarUint(arr, pos) == readVarUintFrom(arr, pos, 0, 1)

\* decoding.readUint8Array(decoder, len), len as read by readVarUint
readUint8Array(arr, n) ==
  IF ~n.ok \/ n.pos + n.val > Len(arr)
    THEN [ok |-> FALSE, val |-> <<>>, pos |-> n.pos]
    ELSE [ok |-> TRUE, val |-> SubSeq(arr, n.pos + 1, n.pos + n.val),
          pos |-> n.pos + n.val]

readVarUint8Array(arr, pos) == readUint8Array(arr, readVarUint(arr, pos))

readVarString(arr, pos) == readVarUint8Array(arr, pos)

hasContent(arr, pos) == pos /= Len(arr)

----------------------------------------------------------------------------
(* The CRDT engine as the provider sees it.  A document is the set of      *)
(* operations it has integrated; merging is union.  An update lists        *)
(* operations between a count and an (empty) delete set, so the update of  *)
(* nothing is two bytes, as it is for the engine; a state vector is a      *)
(* count and the operations known.                                         *)

Ops == {1, 2}

encodeStateVector(doc) == <<Cardinality(doc)>> \o SetToSeq(doc)

decodeStateVector(bytes) ==
  IF Len(bytes) >= 1 /\ bytes[1] = Len(bytes) - 1 /\ Range(Tail(bytes)) \subseteq Ops
    THEN [ok |-> TRUE, val |-> Range(Tail(bytes))]
    ELSE [ok |-> FALSE, val |-> {}]

encodeUpdate(ops) == <<Cardinality(ops)>> \o SetToSeq(ops) \o <<0>>

decodeUpdate(bytes) ==
  IF /\ Len(bytes) >= 2
     /\ bytes[1] = Len(bytes) - 2
     /\ bytes[Len(bytes)] = 0
     /\ Range(SubSeq(bytes, 2, Len(bytes) - 1)) \subseteq Ops
    THEN [ok |-> TRUE, val |-> Range(SubSeq(bytes, 2, Len(bytes) - 1))]
    ELSE [ok |-> FALSE, val |-> {}]

encodeStateAsUpdate(doc, sv) == encodeUpdate(doc \ sv)

----------------------------------------------------------------------------
(* Identifiers.  A document identifier is a string, here its bytes.        *)

\* the room name, identifier of the primary document
Roomname == <<114>>
\* the identifiers of the two sub-documents applications attach
SubGuid == <<115>>
Sub2Guid == <<116>>
\* an identifier no document has
OtherGuid == <<120>>

Guids == {Roomname, SubGuid, Sub2Guid}

\* the operations of the primary document that store a sub-document under
\* its identifier in the root map
rootOp(guid) == IF guid = SubGuid THEN 1 ELSE IF guid = Sub2Guid THEN 2 ELSE 0

\* provider.doc.getMap().get(guid) is truthy
rootMapHas(primary, guid) == rootOp(guid) \in primary

----------------------------------------------------------------------------
(* Effects of the running handler, in program order: frames sent on a      *)
(* socket, frames published on the local channel, events emitted, timers   *)
(* set, sockets constructed or closed, log lines.                          *)

Ev(kind, n, buf, name) == [kind |-> kind, n |-> n, buf |-> buf, name |-> name]

Log(pr, e) == [pr EXCEPT !.out = Append(@, e)]

\* Observable.emit
emit(pr, name) == Log(pr, Ev("emit", 0, <<>>, name))

\* console.error / console.warn
console(pr, name) == Log(pr, Ev("console", 0, <<>>, name))

\* an exception leaves the handler
throw(pr) == [pr EXCEPT !.threw = TRUE]

\* websocket.send(buf) on socket s
wsSend(pr, s, buf) == Log(pr, Ev("send", s, buf, ""))

\* bc.publish(provider.bcChannel, buf, provider)
bcPublish(pr, buf) == Log(pr, Ev("publish", 0, buf, ""))

\* websocket.close() on socket s
wsClose(pr, s) ==
  Log(IF pr.sockets[s].readyState \in {"CONNECTING", "OPEN"}
        THEN [pr EXCEPT !.sockets[s].readyState = "CLOSING"] ELSE pr,
      Ev("close", s, <<>>, ""))

broadcastMessage(pr, buf) ==
  LET Bc(p1) == IF p1.bcconnected THEN bcPublish(p1, buf) ELSE p1
  IN Bc(IF pr.wsconnected /\ pr.ws /= 0 THEN wsSend(pr, pr.ws, buf) ELSE pr)

----------------------------------------------------------------------------
(* The awareness table: states (client -> state, absent when null) and     *)
(* meta (client -> clock).  Clients are enumerated in ascending order.     *)

\* JSON.stringify of an awareness state
JsonStringify(state) ==
  IF state = Null THEN <<110, 117, 108, 108>> ELSE <<123, 48 + state, 125>>

\* JSON.parse; ok = FALSE is a SyntaxError
JsonParse(bytes) ==
  IF bytes = <<110, 117, 108, 108>> THEN [ok |-> TRUE, val |-> Null]
  ELSE IF Len(bytes) = 3 /\ bytes[1] = 123 /\ bytes[3] = 125 /\ bytes[2] > 48
         THEN [ok |-> TRUE, val |-> bytes[2] - 48]
         ELSE [ok |-> FALSE, val |-> Null]

stateOf(states, client) == IF client \in DOMAIN states THEN states[client] ELSE Null

getLocalState(pr) == stateOf(pr.awareness.states, pr.clientID)

Without(f, S) == [c \in DOMAIN f \ S |-> f[c]]

With(f, c, v) == [d \in DOMAIN f \cup {c} |-> IF d = c THEN v ELSE f[d]]

RECURSIVE encodeClients(_, _, _)
encodeClients(aw, clients, states) ==
  IF clients = <<>> THEN <<>>
  ELSE writeVarString(writeVarUint(writeVarUint(<<>>, Head(clients)),
                                   aw.meta[Head(clients)]),
                      JsonStringify(stateOf(states, Head(clients))))
       \o encodeClients(aw, Tail(clients), states)

\* awarenessProtocol.encodeAwarenessUpdate(awareness, clients, states)
encodeAwarenessUpdate(aw, clients, states) ==
  writeVarUint(<<>>, Len(clients)) \o encodeClients(aw, clients, states)

\* a frame of kind AWARENESS_UPDATE for the clients
awarenessFrame(aw, clients, states) ==
  writeVarUint8Array(writeVarUint(<<>>, messageAwareness),
                     encodeAwarenessUpdate(aw, clients, states))

\* WebsocketProvider._awarenessUpdateHandler, called on the table's 'update'
awarenessUpdateHandler(pr, changedClients) ==
  IF pr.awarenessListener
    THEN broadcastMessage(pr, awarenessFrame(pr.awareness, changedClients,
                                             pr.awareness.states))
    ELSE pr

\* awarenessProtocol.removeAwarenessStates(awareness, clients, origin)
removeAwarenessStates(pr, clients) ==
  LET Remove(removed) ==
        IF removed = <<>> THEN pr
        ELSE awarenessUpdateHandler(
               [pr EXCEPT !.awareness =
                  [states |-> Without(pr.awareness.states, Range(removed)),
                   meta |-> [c \in DOMAIN pr.awareness.meta |->
                               IF c = pr.clientID /\ c \in Range(removed)
                                 THEN pr.awareness.meta[c] + 1
                                 ELSE pr.awareness.meta[c]]]],
               removed)
  IN Remove(SelectSeq(clients, LAMBDA c : c \in DOMAIN pr.awareness.states))

\* Awareness.setLocalState(state)
setLocalState(pr, state) ==
  LET c == pr.clientID
      clock == IF c \in DOMAIN pr.awareness.meta THEN pr.awareness.meta[c] + 1 ELSE 0
      states == IF state = Null THEN Without(pr.awareness.states, {c})
                ELSE With(pr.awareness.states, c, state)
      changed == IF state = Null /\ c \notin DOMAIN pr.awareness.states
                   THEN <<>> ELSE <<c>>
  IN awarenessUpdateHandler(
       [pr EXCEPT !.awareness = [states |-> states,
                                 meta |-> With(pr.awareness.meta, c, clock)]],
       changed)

\* one entry of applyAwarenessUpdate: client c with clock and state
applyEntry(aw, local, c, clock, state, ch) ==
  LET hasMeta == c \in DOMAIN aw.meta
      currClock == IF hasMeta THEN aw.meta[c] ELSE 0
      wins == \/ currClock < clock
              \/ currClock = clock /\ state = Null /\ c \in DOMAIN aw.states
      keepLocal == state = Null /\ c = local /\ stateOf(aw.states, local) /= Null
      states == IF state = Null
                  THEN (IF keepLocal THEN aw.states ELSE Without(aw.states, {c}))
                  ELSE With(aw.states, c, state)
      meta == With(aw.meta, c, IF keepLocal THEN clock + 1 ELSE clock)
      ch1 == IF ~hasMeta /\ state /= Null THEN [ch EXCEPT !.added = Append(@, c)]
             ELSE IF hasMeta /\ state = Null THEN [ch EXCEPT !.removed = Append(@, c)]
             ELSE IF state /= Null THEN [ch EXCEPT !.updated = Append(@, c)]
             ELSE ch
  IN IF wins THEN [aw |-> [states |-> states, meta |-> meta], ch |-> ch1]
     ELSE [aw |-> aw, ch |-> ch]

RECURSIVE applyEntries(_, _, _, _, _, _)
\* the loop of applyAwarenessUpdate over the n entries left at pos; ch holds
\* the added, updated and removed clients
applyEntries(aw, local, arr, pos, n, ch) ==
  LET E1(cl) ==
        LET E2(ck) ==
              LET E3(st) ==
                    LET E4(js) ==
                          LET E5(r) == applyEntries(r.aw, local, arr, st.pos, n - 1, r.ch)
                          IN IF ~cl.ok \/ ~ck.ok \/ ~st.ok \/ ~js.ok
                               THEN [ok |-> FALSE, aw |-> aw, ch |-> ch]
                               ELSE E5(applyEntry(aw, local, cl.val, ck.val, js.val, ch))
                    IN E4(JsonParse(st.val))
              IN E3(readVarString(arr, ck.pos))
        IN E2(readVarUint(arr, cl.pos))
  IN IF n = 0 THEN [ok |-> TRUE, aw |-> aw, ch |-> ch]
     ELSE E1(readVarUint(arr, pos))

\* awarenessProtocol.applyAwarenessUpdate(provider.awareness, update, provider)
applyAwarenessUpdate(pr, update) ==
  LET A1(len) ==
        LET A2(r) ==
              LET A3(p1, changedClients) ==
                    IF ~r.ok THEN throw(p1)
                    ELSE IF changedClients = <<>> THEN p1
                    ELSE awarenessUpdateHandler(p1, changedClients)
              IN A3([pr EXCEPT !.awareness = r.aw],
                    r.ch.added \o r.ch.updated \o r.ch.removed)
        IN IF ~len.ok THEN throw(pr)
           ELSE A2(applyEntries(pr.awareness, pr.clientID, update, len.pos, len.val,
                                [added |-> <<>>, updated |-> <<>>, removed |-> <<>>]))
  IN A1(readVarUint(update, 0))

----------------------------------------------------------------------------
(* The message router.                                                     *)

\* mutant: every identifier resolves to a document
getDocAny(pr, id) == TRUE

\* WebsocketProvider.getDoc: the identifier is in the registry
getDoc(pr, id) == id \in Range(pr.docs)

\* mutant: the setter notifies on every assignment
setSyncedAlways(pr, state) ==
  Log(Log([pr EXCEPT !.synced = state],
          Ev("emit", IF state THEN 1 ELSE 0, <<>>, "synced")),
      Ev("emit", IF state THEN 1 ELSE 0, <<>>, "sync"))

\* the synced setter: emits only on a change
setSynced(pr, state) ==
  IF pr.synced /= state
    THEN Log(Log([pr EXCEPT !.synced = state],
                 Ev("emit", IF state THEN 1 ELSE 0, <<>>, "synced")),
             Ev("emit", IF state THEN 1 ELSE 0, <<>>, "sync"))
    ELSE pr

\* syncedStatus.get(id) is truthy
syncedStatusGet(pr, id) == id \in DOMAIN pr.syncedStatus /\ pr.syncedStatus[id]

\* WebsocketProvider.updateSyncedStatus
updateSyncedStatus(pr, id, state) ==
  IF ~(id \in DOMAIN pr.syncedStatus /\ pr.syncedStatus[id] = state)
    THEN Log([pr EXCEPT !.syncedStatus = With(@, id, state)],
             Ev("emit", IF state THEN 1 ELSE 0, id, "subdoc_synced"))
    ELSE pr

\* the frame _updateHandler and the closures of _getSubDocUpdateHandler build
docUpdateFrame(id, update) ==
  writeVarUint8Array(
    writeVarUint(writeVarString(writeVarUint(<<>>, messageSync), id), messageYjsUpdate),
    update)

\* mutant: the origin of the update is not looked at
updateHandlerEcho(pr, id, update, originIsProvider) ==
  broadcastMessage(pr, docUpdateFrame(id, update))

\* _updateHandler (id is the room name) and the closure that
\* _getSubDocUpdateHandler(id) returns
updateHandler(pr, id, update, originIsProvider) ==
  IF originIsProvider THEN pr
  ELSE broadcastMessage(pr, docUpdateFrame(id, update))

RECURSIVE callListeners(_, _, _, _, _)
\* n listeners of the provider run, one after the other
callListeners(pr, id, update, originIsProvider, n) ==
  IF n = 0 THEN pr
  ELSE callListeners(updateHandler(pr, id, update, originIsProvider),
                     id, update, originIsProvider, n - 1)

\* the 'update' event of document id: every listener the provider has
\* registered on it and not removed runs
docUpdateEvent(pr, id, update, originIsProvider) ==
  callListeners(pr, id, update, originIsProvider,
                IF id = Roomname THEN (IF pr.docListener THEN 1 ELSE 0)
                ELSE Cardinality(pr.subdocListeners[id]))

\* a transaction that adds ops to document id; 'update' fires with the
\* operations that are new, if there are any
transact(pr, id, ops, originIsProvider) ==
  IF ops \subseteq pr.ydocs[id] THEN pr
  ELSE docUpdateEvent([pr EXCEPT !.ydocs[id] = @ \cup ops], id,
                      encodeUpdate(ops \ pr.ydocs[id]), originIsProvider)

\* Y.applyUpdate(doc, update, provider) inside the try of readSyncStep2: a
\* malformed update is caught and logged.  The update listeners see the
\* provider as origin and send nothing.
applyUpdate(pr, id, u) ==
  IF u.ok THEN transact(pr, id, u.val, TRUE)
  ELSE console(pr, "Caught error while handling a Yjs update")

\* syncProtocol.readSyncMessage(decoder, encoder, doc, provider):
\* [pr, encoder, type]; pr.threw when it throws
readSyncMessage(pr, arr, pos, encoder, id) ==
  LET R1(t) ==
        LET R2(a) ==
              LET R3(sv) ==
                    LET none == [pr |-> throw(pr), encoder |-> encoder, type |-> t.val]
                    IN IF ~t.ok THEN none
                       ELSE IF t.val = messageYjsSyncStep1
                         THEN IF ~a.ok \/ ~sv.ok THEN none
                              ELSE [pr |-> pr, type |-> t.val,
                                    encoder |->
                                      writeVarUint8Array(
                                        writeVarUint(encoder, messageYjsSyncStep2),
                                        encodeStateAsUpdate(pr.ydocs[id], sv.val))]
                       ELSE IF t.val \in {messageYjsSyncStep2, messageYjsUpdate}
                         THEN [pr |-> IF a.ok THEN applyUpdate(pr, id, decodeUpdate(a.val))
                                      ELSE console(pr,
                                             "Caught error while handling a Yjs update"),
                               encoder |-> encoder, type |-> t.val]
                       ELSE none
              IN R3(decodeStateVector(a.val))
        IN R2(readVarUint8Array(arr, t.pos))
  IN R1(readVarUint(arr, pos))

\* mutant: the flag follows the kind of the last frame
mainDocSyncedLastFrame(pr, emitSynced, docGuid, syncMessageType) ==
  IF emitSynced /\ docGuid = Roomname
    THEN setSynced(pr, syncMessageType = messageYjsSyncStep2) ELSE pr

\* the "main doc synced" step of messageHandlers[messageSync]
mainDocSynced(pr, emitSynced, docGuid, syncMessageType) ==
  IF /\ emitSynced
     /\ docGuid = Roomname
     /\ syncMessageType = messageYjsSyncStep2
     /\ ~pr.synced
    THEN setSynced(pr, TRUE) ELSE pr

\* messageHandlers[messageSync]: [pr, encoder]
syncHandler(pr, arr, pos, emitSynced) ==
  LET S1(g) ==
        LET S2(hasGuid) ==
              LET docGuid == IF hasGuid THEN g.val ELSE Roomname
                  dpos == IF hasGuid THEN g.pos ELSE pos
                  S3(r) ==
                    LET S4(p1) ==
                          IF /\ emitSynced
                             /\ docGuid /= Roomname
                             /\ r.type = messageYjsSyncStep2
                             /\ ~syncedStatusGet(p1, docGuid)
                            THEN [pr |-> updateSyncedStatus(p1, docGuid, TRUE),
                                  encoder |-> r.encoder]
                            ELSE [pr |-> p1, encoder |-> r.encoder]
                    IN IF r.pr.threw THEN [pr |-> r.pr, encoder |-> r.encoder]
                       ELSE S4(mainDocSynced(r.pr, emitSynced, docGuid, r.type))
              IN IF ~getDoc(pr, docGuid) \/ dpos = Len(arr)
                   THEN [pr |-> pr, encoder |-> <<>>]
                   ELSE S3(readSyncMessage(pr, arr, dpos,
                             IF hasGuid
                               THEN writeVarString(writeVarUint(<<>>, messageSync), docGuid)
                               ELSE writeVarUint(<<>>, messageSync),
                             docGuid))
        IN S2(g.ok /\ (rootMapHas(pr.ydocs[Roomname], g.val) \/ g.val = Roomname))
  IN S1(readVarString(arr, pos))

\* messageHandlers[messageSync] of y-websocket.js: it returns early only
\* for an unknown document
syncHandlerJs(pr, arr, pos, emitSynced) ==
  LET S1(g) ==
        LET S2(hasGuid) ==
              LET docGuid == IF hasGuid THEN g.val ELSE Roomname
                  dpos == IF hasGuid THEN g.pos ELSE pos
                  S3(r) ==
                    LET S4(p1) ==
                          IF /\ emitSynced
                             /\ docGuid /= Roomname
                             /\ r.type = messageYjsSyncStep2
                             /\ ~syncedStatusGet(p1, docGuid)
                            THEN [pr |-> updateSyncedStatus(p1, docGuid, TRUE),
                                  encoder |-> r.encoder]
                            ELSE [pr |-> p1, encoder |-> r.encoder]
                    IN IF r.pr.threw THEN [pr |-> r.pr, encoder |-> r.encoder]
                       ELSE S4(mainDocSynced(r.pr, emitSynced, docGuid, r.type))
              IN IF ~getDoc(pr, docGuid)
                   THEN [pr |-> pr, encoder |-> <<>>]
                   ELSE S3(readSyncMessage(pr, arr, dpos,
                             IF hasGuid
                               THEN writeVarString(writeVarUint(<<>>, messageSync), docGuid)
                               ELSE writeVarUint(<<>>, messageSync),
                             docGuid))
        IN S2(g.ok /\ (rootMapHas(pr.ydocs[Roomname], g.val) \/ g.val = Roomname))
  IN S1(readVarString(arr, pos))

\* mutant: the reply holds the local client alone
queryAwarenessLocalOnly(pr) ==
  [pr |-> pr,
   encoder |-> awarenessFrame(pr.awareness, <<pr.clientID>>, pr.awareness.states)]

\* messageHandlers[messageQueryAwareness]
queryAwarenessHandler(pr) ==
  [pr |-> pr,
   encoder |-> awarenessFrame(pr.awareness, SetToSeq(DOMAIN pr.awareness.states),
                              pr.awareness.states)]

\* messageHandlers[messageAwareness]
awarenessHandler(pr, arr, pos) ==
  LET H(u) == [pr |-> IF u.ok THEN applyAwarenessUpdate(pr, u.val) ELSE throw(pr),
               encoder |-> <<>>]
  IN H(readVarUint8Array(arr, pos))

\* messageHandlers[messageAuth]: authProtocol.readAuthMessage with
\* permissionDeniedHandler
authHandler(pr, arr, pos) ==
  LET H1(t) ==
        LET H2(reason) ==
              [pr |-> IF ~t.ok THEN throw(pr)
                      ELSE IF t.val /= 0 THEN pr
                      ELSE IF ~reason.ok THEN throw(pr)
                      ELSE console(pr, "Permission denied"),
               encoder |-> <<>>]
        IN H2(readVarString(arr, t.pos))
  IN H1(readVarUint(arr, pos))

\* mutant: a kind without handler raises an exception
noHandlerThrows(pr) == [pr |-> throw(pr), encoder |-> <<>>]

\* the else branch of readMessage: no handler for the kind
noHandler(pr) == [pr |-> console(pr, "Unable to compute message"), encoder |-> <<>>]

\* readMessage(provider, buf, emitSynced): [pr, encoder]
readMessage(pr, buf, emitSynced) ==
  LET M(messageType) ==
        IF ~messageType.ok THEN [pr |-> throw(pr), encoder |-> <<>>]
        ELSE IF messageType.val = messageSync
          THEN syncHandler(pr, buf, messageType.pos, emitSynced)
        ELSE IF messageType.val = messageAwareness
          THEN awarenessHandler(pr, buf, messageType.pos)
        ELSE IF messageType.val = messageAuth
          THEN authHandler(pr, buf, messageType.pos)
        ELSE IF messageType.val = messageQueryAwareness
          THEN queryAwarenessHandler(pr)
        ELSE noHandler(pr)
  IN M(readVarUint(buf, 0))

\* needSend(encoder): [ok, val]; ok = FALSE when a read throws
needSend(encoder) ==
  LET N1(k) ==
        LET N2(g) == [ok |-> k.ok /\ g.ok, val |-> hasContent(encoder, g.pos)]
        IN N2(readVarString(encoder, k.pos))
  IN N1(readVarUint(encoder, 0))

----------------------------------------------------------------------------
(* The transport session: setupWS and the handlers it installs on the      *)
(* socket it constructs.  A socket is [readyState, opened]; it is live     *)
(* until its close event is delivered.                                     *)

\* mutant: a dropped link is retried at once
reconnectDelayImmediate(unsuccessful) ==
  IF unsuccessful = 0 THEN 0 ELSE Min(Pow2(unsuccessful) * 100, maxBackoffTime)

\* mutant: the delay without its ceiling
reconnectDelayUncapped(unsuccessful) == Pow2(unsuccessful) * 100

\* the reconnect delay of websocket.onclose
reconnectDelay(unsuccessful) == Min(Pow2(unsuccessful) * 100, maxBackoffTime)

\* a step-1 SYNC request for document k, with its identifier
syncStep1Frame(pr, k) ==
  writeVarUint8Array(
    writeVarUint(writeVarString(writeVarUint(<<>>, messageSync), k), messageYjsSyncStep1),
    encodeStateVector(pr.ydocs[k]))

RECURSIVE sendStep1sSubdocs(_, _, _)
\* mutant: the primary document is skipped
sendStep1sSubdocs(pr, s, ks) ==
  IF ks = <<>> THEN pr
  ELSE sendStep1sSubdocs(IF Head(ks) = Roomname THEN pr
                         ELSE wsSend(pr, s, syncStep1Frame(pr, Head(ks))), s, Tail(ks))

RECURSIVE sendStep1s(_, _, _)
\* the loop of websocket.onopen over provider.docs
sendStep1s(pr, s, ks) ==
  IF ks = <<>> THEN pr
  ELSE sendStep1s(wsSend(pr, s, syncStep1Frame(pr, Head(ks))), s, Tail(ks))

\* mutants of the guard: the null check dropped; the flag check dropped
canSetupWhileLive(pr) == pr.shouldConnect
canSetupUnwanted(pr) == pr.ws = 0

\* the guard of setupWS
canSetup(pr) == pr.shouldConnect /\ pr.ws = 0

\* setupWS(provider)
setupWS(pr) ==
  IF canSetup(pr)
    THEN emit(setSynced(Log([pr EXCEPT !.sockets = Append(@, [readyState |-> "CONNECTING",
                                                              opened |-> FALSE]),
                                       !.ws = Len(pr.sockets) + 1,
                                       !.wsconnecting = TRUE,
                                       !.wsconnected = FALSE],
                            Ev("new", Len(pr.sockets) + 1, <<>>, "")),
                        FALSE),
              "status:connecting")
    ELSE pr

\* websocket.onmessage of socket s, at time t
onmessage(pr, s, buf, t) ==
  LET O1(r) ==
        LET O2(n) == IF ~n.ok THEN throw(r.pr)
                     ELSE IF n.val THEN wsSend(r.pr, s, r.encoder) ELSE r.pr
        IN IF r.pr.threw THEN r.pr
           ELSE IF Len(r.encoder) > 1 THEN O2(needSend(r.encoder))
           ELSE r.pr
  IN O1(readMessage([pr EXCEPT !.wsLastMessageReceived = t], buf, TRUE))

\* websocket.onerror
onerror(pr) == emit(pr, "connection-error")

\* mutant: every client, the local one included
allClients(pr) == SetToSeq(DOMAIN pr.awareness.states)

\* the clients websocket.onclose removes from the awareness table
remoteClients(pr) ==
  SelectSeq(SetToSeq(DOMAIN pr.awareness.states), LAMBDA client : client /= pr.clientID)

\* mutant: a dropped link (counter 0) is not retried
scheduleReconnectAfterFailure(pr) ==
  IF pr.wsUnsuccessfulReconnects > 0
    THEN Log([pr EXCEPT !.timers = @ (+) SetToBag({reconnectDelay(pr.wsUnsuccessfulReconnects)})],
             Ev("setTimeout", reconnectDelay(pr.wsUnsuccessfulReconnects), <<>>, "setupWS"))
    ELSE pr

\* the setTimeout(setupWS, ...) of websocket.onclose
scheduleReconnect(pr) ==
  LET T(delay) == Log([pr EXCEPT !.timers = @ (+) SetToBag({delay})],
                      Ev("setTimeout", delay, <<>>, "setupWS"))
  IN T(reconnectDelay(pr.wsUnsuccessfulReconnects))

\* mutant: the counter is never below one after a failure
unsuccessfulReconnectTwice(pr) == [pr EXCEPT !.wsUnsuccessfulReconnects = @ + 2]

\* mutant: the failure is not counted
unsuccessfulReconnectUncounted(pr) == pr

\* the branch of websocket.onclose for a link that never opened
unsuccessfulReconnect(pr) == [pr EXCEPT !.wsUnsuccessfulReconnects = @ + 1]

\* mutant: every close is reported as a disconnection
oncloseAlwaysDisconnected(pr) ==
  LET C1(p1) ==
        LET C2(p2) == emit(removeAwarenessStates(p2, remoteClients(p2)),
                           "status:disconnected")
        IN scheduleReconnect(
             IF p1.wsconnected
               THEN C2(setSynced([p1 EXCEPT !.wsconnected = FALSE], FALSE))
               ELSE C2(unsuccessfulReconnect(p1)))
  IN C1([emit(pr, "connection-close") EXCEPT !.ws = 0, !.wsconnecting = FALSE])

\* mutant: the synced flag survives the close
oncloseKeepSynced(pr) ==
  LET C1(p1) ==
        LET C2(p2) == emit(removeAwarenessStates(p2, remoteClients(p2)),
                           "status:disconnected")
        IN scheduleReconnect(
             IF p1.wsconnected
               THEN C2([p1 EXCEPT !.wsconnected = FALSE])
               ELSE unsuccessfulReconnect(p1))
  IN C1([emit(pr, "connection-close") EXCEPT !.ws = 0, !.wsconnecting = FALSE])

\* websocket.onclose
onclose(pr) ==
  LET C1(p1) ==
        LET C2(p2) == emit(removeAwarenessStates(p2, remoteClients(p2)),
                           "status:disconnected")
        IN scheduleReconnect(
             IF p1.wsconnected
               THEN C2(setSynced([p1 EXCEPT !.wsconnected = FALSE], FALSE))
               ELSE unsuccessfulReconnect(p1))
  IN C1([emit(pr, "connection-close") EXCEPT !.ws = 0, !.wsconnecting = FALSE])

\* mutant: the connecting flag survives the open
markOpenStillConnecting(pr, t) ==
  [pr EXCEPT !.wsLastMessageReceived = t,
             !.wsconnected = TRUE,
             !.wsUnsuccessfulReconnects = 0]

\* mutant: the backoff counter survives the open
markOpenKeepBackoff(pr, t) ==
  [pr EXCEPT !.wsLastMessageReceived = t, !.wsconnecting = FALSE, !.wsconnected = TRUE]

\* the flags websocket.onopen sets
markOpen(pr, t) ==
  [pr EXCEPT !.wsLastMessageReceived = t,
             !.wsconnecting = FALSE,
             !.wsconnected = TRUE,
             !.wsUnsuccessfulReconnects = 0]

\* websocket.onopen of socket s, at time t
onopen(pr, s, t) ==
  LET P1(p1) ==
        LET P2(p2) ==
              emit(IF getLocalState(p2) /= Null
                     THEN wsSend(p2, s, awarenessFrame(p2.awareness, <<p2.clientID>>,
                                                       p2.awareness.states))
                     ELSE p2,
                   "status:connected")
        IN P2(sendStep1s(p1, s, p1.docs))
  IN P1(markOpen(pr, t))

\* mutant: the watchdog fires when the silence equals the timeout
checkIntervalAtTimeout(pr, t) ==
  IF pr.wsconnected /\ messageReconnectTimeout <= t - pr.wsLastMessageReceived
       /\ pr.ws /= 0
    THEN wsClose(pr, pr.ws)
    ELSE pr

\* the watchdog: the callback of _checkInterval, at time t
checkInterval(pr, t) ==
  IF pr.wsconnected /\ messageReconnectTimeout < t - pr.wsLastMessageReceived
       /\ pr.ws /= 0
    THEN wsClose(pr, pr.ws)
    ELSE pr

----------------------------------------------------------------------------
(* The provider facade.                                                    *)

\* mutant: the subscription is renewed on every call
connectBcResubscribe(pr) ==
  IF pr.disableBc THEN pr
  ELSE bcPublish(
         bcPublish(
           bcPublish(
             bcPublish(Log([pr EXCEPT !.bcconnected = TRUE, !.bcChannel = TRUE],
                           Ev("subscribe", 0, <<>>, "")),
               writeVarUint8Array(
                 writeVarUint(writeVarUint(<<>>, messageSync), messageYjsSyncStep1),
                 encodeStateVector(pr.ydocs[Roomname]))),
             writeVarUint8Array(
               writeVarUint(writeVarUint(<<>>, messageSync), messageYjsSyncStep2),
               encodeStateAsUpdate(pr.ydocs[Roomname], {}))),
           writeVarUint(<<>>, messageQueryAwareness)),
         awarenessFrame(pr.awareness, <<pr.clientID>>, pr.awareness.states))

\* WebsocketProvider.connectBc
connectBc(pr) ==
  LET B1(p1) ==
        bcPublish(
          bcPublish(
            bcPublish(
              bcPublish(p1,
                writeVarUint8Array(
                  writeVarUint(writeVarUint(<<>>, messageSync), messageYjsSyncStep1),
                  encodeStateVector(p1.ydocs[Roomname]))),
              writeVarUint8Array(
                writeVarUint(writeVarUint(<<>>, messageSync), messageYjsSyncStep2),
                encodeStateAsUpdate(p1.ydocs[Roomname], {}))),
            writeVarUint(<<>>, messageQueryAwareness)),
          awarenessFrame(p1.awareness, <<p1.clientID>>, p1.awareness.states))
  IN IF pr.disableBc THEN pr
     ELSE B1(IF ~pr.bcconnected
               THEN Log([pr EXCEPT !.bcconnected = TRUE, !.bcChannel = TRUE],
                        Ev("subscribe", 0, <<>>, ""))
               ELSE pr)

\* mutant: the provider unsubscribes before it says goodbye
disconnectBcUnsubscribeFirst(pr) ==
  LET D1(p1) == broadcastMessage(p1, awarenessFrame(p1.awareness, <<p1.clientID>>, EmptyMap))
  IN D1(IF pr.bcconnected
          THEN Log([pr EXCEPT !.bcconnected = FALSE], Ev("unsubscribe", 0, <<>>, ""))
          ELSE pr)

\* WebsocketProvider.disconnectBc
disconnectBc(pr) ==
  LET D1(p1) ==
        IF p1.bcconnected
          THEN Log([p1 EXCEPT !.bcconnected = FALSE], Ev("unsubscribe", 0, <<>>, ""))
          ELSE p1
  IN D1(broadcastMessage(pr, awarenessFrame(pr.awareness, <<pr.clientID>>, EmptyMap)))

\* mutant: the origin of the frame is not looked at
bcSubscriberOwn(pr, data, originIsThis) ==
  LET B1(r) == IF r.pr.threw THEN r.pr
               ELSE IF Len(r.encoder) > 1 THEN bcPublish(r.pr, r.encoder)
               ELSE r.pr
  IN B1(readMessage(pr, data, FALSE))

\* mutant: frames of the local channel count for sync completion
bcSubscriberEmits(pr, data, originIsThis) ==
  LET B1(r) == IF r.pr.threw THEN r.pr
               ELSE IF Len(r.encoder) > 1 THEN bcPublish(r.pr, r.encoder)
               ELSE r.pr
  IN IF originIsThis THEN pr ELSE B1(readMessage(pr, data, TRUE))

\* mutant: frames of the local channel are ignored
bcSubscriberDeaf(pr, data, originIsThis) == pr

\* WebsocketProvider._bcSubscriber(data, origin)
bcSubscriber(pr, data, originIsThis) ==
  LET B1(r) == IF r.pr.threw THEN r.pr
               ELSE IF Len(r.encoder) > 1 THEN bcPublish(r.pr, r.encoder)
               ELSE r.pr
  IN IF originIsThis THEN pr ELSE B1(readMessage(pr, data, FALSE))

\* WebsocketProvider.disconnect
disconnect(pr) ==
  LET D1(p1) == IF p1.ws /= 0 THEN wsClose(p1, p1.ws) ELSE p1
  IN D1(disconnectBc([pr EXCEPT !.shouldConnect = FALSE]))

\* mutant: the local channel is connected on every call
connectAlwaysBc(pr) == connectBc(setupWS([pr EXCEPT !.shouldConnect = TRUE]))

\* WebsocketProvider.connect
connect(pr) ==
  IF ~pr.wsconnected /\ pr.ws = 0
    THEN connectBc(setupWS([pr EXCEPT !.shouldConnect = TRUE]))
    ELSE [pr EXCEPT !.shouldConnect = TRUE]

\* the clearInterval calls of destroy
clearIntervals(pr) ==
  Log(IF pr.resyncInterval
        THEN Log([pr EXCEPT !.resyncInterval = FALSE, !.checkInterval = FALSE],
                 Ev("clearInterval", 0, <<>>, "resyncInterval"))
        ELSE [pr EXCEPT !.checkInterval = FALSE],
      Ev("clearInterval", 0, <<>>, "checkInterval"))

\* WebsocketProvider.destroy
destroy(pr) ==
  Log(Log([disconnect(clearIntervals(pr)) EXCEPT !.awarenessListener = FALSE,
                                                 !.docListener = FALSE],
          Ev("off", 0, <<>>, "awareness")),
      Ev("off", 0, <<>>, "doc"))

\* WebsocketProvider.addSubdoc: the handler is a fresh closure
addSubdoc(pr, guid) ==
  LET A1(p1) == broadcastMessage(p1, syncStep1Frame(p1, guid))
  IN A1([pr EXCEPT !.docs = IF guid \in Range(@) THEN @ ELSE Append(@, guid),
                   !.subdocListeners[guid] = @ \cup {pr.nextHandler},
                   !.subdocUpdateHandlers[guid] = pr.nextHandler,
                   !.nextHandler = @ + 1])

\* mutant: the document is dropped from the registry and the status map
removeSubdocForget(pr, guid) ==
  [pr EXCEPT !.subdocListeners[guid] = @ \ {pr.subdocUpdateHandlers[guid]},
             !.docs = SelectSeq(@, LAMBDA k : k /= guid),
             !.syncedStatus = Without(@, {guid})]

\* WebsocketProvider.removeSubdoc: the handler the map holds for the
\* identifier, if any, is taken off the document
removeSubdoc(pr, guid) ==
  IF pr.subdocUpdateHandlers[guid] /= 0
    THEN [pr EXCEPT !.subdocListeners[guid] = @ \ {pr.subdocUpdateHandlers[guid]}]
    ELSE pr

\* mutant: the request is sent on any socket there is
resyncTickAnySocket(pr) ==
  IF pr.ws /= 0
    THEN wsSend(pr, pr.ws,
                writeVarUint8Array(
                  writeVarUint(writeVarUint(<<>>, messageSync), messageYjsSyncStep1),
                  encodeStateVector(pr.ydocs[Roomname])))
    ELSE pr

\* the callback of _resyncInterval
resyncTick(pr) ==
  IF pr.ws /= 0 /\ pr.sockets[pr.ws].readyState = "OPEN"
    THEN wsSend(pr, pr.ws,
                writeVarUint8Array(
                  writeVarUint(writeVarUint(<<>>, messageSync), messageYjsSyncStep1),
                  encodeStateVector(pr.ydocs[Roomname])))
    ELSE pr

\* the provider as the constructor leaves it, before it connects
newProvider(clientID, opts) ==
  [clientID |-> clientID,
   disableBc |-> opts.disableBc,
   shouldConnect |-> opts.connect,
   ws |-> 0,
   wsconnecting |-> FALSE,
   wsconnected |-> FALSE,
   bcconnected |-> FALSE,
   bcChannel |-> FALSE,
   inbox |-> <<>>,
   wsUnsuccessfulReconnects |-> 0,
   synced |-> FALSE,
   wsLastMessageReceived |-> 0,
   docs |-> <<Roomname>>,
   syncedStatus |-> EmptyMap,
   subdocUpdateHandlers |-> [g \in Guids \ {Roomname} |-> 0],
   subdocListeners |-> [g \in Guids \ {Roomname} |-> {}],
   nextHandler |-> 1,
   resyncInterval |-> opts.resyncInterval,
   checkInterval |-> TRUE,
   docListener |-> TRUE,
   awarenessListener |-> TRUE,
   awareness |-> [states |-> (clientID :> 1), meta |-> (clientID :> 0)],
   ydocs |-> [g \in Guids |-> {}],
   sockets |-> <<>>,
   timers |-> EmptyBag,
   out |-> <<>>,
   threw |-> FALSE]

\* the WebsocketProvider constructor
constructor(clientID, opts) ==
  IF opts.connect THEN connect(newProvider(clientID, opts))
  ELSE newProvider(clientID, opts)

----------------------------------------------------------------------------
(* The state machine.                                                      *)

VARIABLES
  provider,   \* the provider objects: session name -> provider record
  now,        \* time.getUnixTime()
  last        \* the handler that ran in the last step: [op, p, s, opened]

vars == <<provider, now, last>>

\* the sessions; each has its own documents and awareness table
Providers == {"A", "B"}

\* doc.clientID of a session's primary document
ClientID(p) == IF p = "A" THEN 11 ELSE 12
\* the client identifier of a remote peer
RemoteClient == 13

\* the awareness states an application sets
AwStates == {Null, 1}

\* the constructor options the model draws from
Options == [connect : BOOLEAN, disableBc : {FALSE}, resyncInterval : {FALSE}]

\* a message kind no handler is registered for
UnknownKind == 4

\* frames the remote peer sends
step2Frame(guid, ops) ==
  writeVarUint8Array(
    writeVarUint(writeVarString(writeVarUint(<<>>, messageSync), guid), messageYjsSyncStep2),
    encodeUpdate(ops))

step2FrameNoGuid(ops) ==
  writeVarUint8Array(
    writeVarUint(writeVarUint(<<>>, messageSync), messageYjsSyncStep2), encodeUpdate(ops))

step1FrameNoGuid(ops) ==
  writeVarUint8Array(
    writeVarUint(writeVarUint(<<>>, messageSync), messageYjsSyncStep1),
    encodeStateVector(ops))

updateFrame(guid, ops) ==
  writeVarUint8Array(
    writeVarUint(writeVarString(writeVarUint(<<>>, messageSync), guid), messageYjsUpdate),
    encodeUpdate(ops))

remoteAwarenessFrame(clock, state) ==
  awarenessFrame([meta |-> (RemoteClient :> clock)], <<RemoteClient>>,
                 (RemoteClient :> state))

\* the frames of the connection lifecycle: the sync handshake of the primary
SyncFrames ==
  { step2Frame(Roomname, {1}), step2FrameNoGuid({}), step1FrameNoGuid({}),
    updateFrame(Roomname, {2}) }

\* frames for sub-documents and presence
PresenceFrames ==
  { step2FrameNoGuid({}), step2Frame(Roomname, {1}), step2Frame(SubGuid, {}),
    remoteAwarenessFrame(1, 1), writeVarUint(<<>>, messageQueryAwareness) }

\* frames that carry document updates
UpdateFrames ==
  { updateFrame(Roomname, {1}), step2Frame(SubGuid, {1}), updateFrame(SubGuid, {2}) }

\* frames for the router: complete ones, truncated ones, one whose
\* identifier names no known document, one of a kind without handler
RouterFrames ==
  { <<>>,
    writeVarUint(<<>>, messageSync),
    writeVarUint(writeVarUint(<<>>, messageSync), messageYjsSyncStep1),
    writeVarString(writeVarUint(<<>>, messageSync), Roomname),
    step2Frame(Roomname, {1}),
    step2Frame(OtherGuid, {1}),
    writeVarUint(<<>>, messageAwareness),
    remoteAwarenessFrame(1, 1),
    writeVarUint(<<>>, messageQueryAwareness),
    writeVarUint(<<>>, UnknownKind) }

step1Frame(guid, ops) ==
  writeVarUint8Array(
    writeVarUint(writeVarString(writeVarUint(<<>>, messageSync), guid), messageYjsSyncStep1),
    encodeStateVector(ops))

updateFrameNoGuid(ops) ==
  writeVarUint8Array(
    writeVarUint(writeVarUint(<<>>, messageSync), messageYjsUpdate), encodeUpdate(ops))

\* step-1 requests the remote peer sends, without and with an identifier
Step1Frames ==
  { step1FrameNoGuid({}), step1Frame(Roomname, {2}), step1Frame(SubGuid, {}) }

\* step-2 responses and updates the remote peer sends
Step2Frames ==
  { step2FrameNoGuid({2}), step2Frame(Roomname, {1}), step2Frame(SubGuid, {1}),
    updateFrameNoGuid({2}), updateFrame(SubGuid, {2}) }

\* a frame that ends after its identifier
HeaderFrames == { writeVarString(writeVarUint(<<>>, messageSync), SubGuid) }

\* the SYNC frames of a session with sub-documents
ReplyFrames == Step1Frames \cup Step2Frames \cup HeaderFrames

\* a frame that only shows the link is alive
WatchFrames == { step2FrameNoGuid({}) }

\* a handler starts with no effect recorded and no exception in flight
Begin(p) == [provider[p] EXCEPT !.out = <<>>, !.threw = FALSE]

\* the frames among the effects out that were published on the local channel
RECURSIVE Published(_)
Published(out) ==
  IF out = <<>> THEN <<>>
  ELSE (IF Head(out).kind = "publish" THEN <<Head(out).buf>> ELSE <<>>)
         \o Published(Tail(out))

\* the sessions after a handler of p ended in pr: what p published waits in
\* the event queue of every other session that has opened the channel
Deliver(p, pr) ==
  [q \in Providers |->
     IF q = p THEN pr
     ELSE IF provider[q].bcChannel
       THEN [provider[q] EXCEPT !.inbox = @ \o Published(pr.out)]
       ELSE provider[q]]

Step(p, pr, op, s, opened) ==
  /\ provider' = Deliver(p, pr)
  /\ last' = [op |-> op, p |-> p, s |-> s, opened |-> opened, buf |-> <<>>]

\* the same for a handler that received the frame buf
StepFrame(p, pr, op, s, buf) ==
  /\ provider' = Deliver(p, pr)
  /\ last' = [op |-> op, p |-> p, s |-> s, opened |-> TRUE, buf |-> buf]

Live(pr) == {s \in 1..Len(pr.sockets) : pr.sockets[s].readyState /= "CLOSED"}

Init ==
  /\ \E opts \in Options :
       provider = [p \in Providers |-> constructor(ClientID(p),
                     IF p = "A" THEN opts
                     ELSE [connect |-> FALSE, disableBc |-> FALSE,
                           resyncInterval |-> FALSE])]
  /\ now = 0
  /\ last = [op |-> "constructor", p |-> "A", s |-> 0, opened |-> FALSE, buf |-> <<>>]

\* the application calls provider.connect()
Connect(p, cap) ==
  LET Go(pr) == Len(pr.sockets) <= cap /\ Step(p, pr, "connect", 0, FALSE)
  IN Go(connect(Begin(p))) /\ UNCHANGED now

\* the application calls provider.disconnect()
Disconnect(p) ==
  /\ Step(p, disconnect(Begin(p)), "disconnect", 0, FALSE)
  /\ UNCHANGED now

\* the application calls provider.destroy()
Destroy(p) ==
  /\ provider[p].checkInterval
  /\ Step(p, destroy(Begin(p)), "destroy", 0, FALSE)
  /\ UNCHANGED now

\* a retry timer set by websocket.onclose fires and calls setupWS
TimerFire(p, cap) ==
  \E delay \in BagToSet(provider[p].timers) :
    LET Go(pr) == Len(pr.sockets) <= cap /\ Step(p, pr, "timer", 0, FALSE)
    IN /\ Go(setupWS([Begin(p) EXCEPT !.timers = @ (-) SetToBag({delay})]))
       /\ UNCHANGED now

\* the open event of socket s
Open(p) ==
  \E s \in Live(provider[p]) :
    /\ provider[p].sockets[s].readyState = "CONNECTING"
    /\ Step(p, onopen([Begin(p) EXCEPT !.sockets[s] = [readyState |-> "OPEN",
                                                        opened |-> TRUE]], s, now),
            "open", s, TRUE)
    /\ UNCHANGED now

\* an error event of socket s
Error(p) ==
  \E s \in Live(provider[p]) :
    /\ Step(p, onerror(Begin(p)), "error", s, provider[p].sockets[s].opened)
    /\ UNCHANGED now

\* the close event of socket s
Close(p) ==
  \E s \in Live(provider[p]) :
    /\ Step(p, onclose([Begin(p) EXCEPT !.sockets[s].readyState = "CLOSED"]),
            "close", s, provider[p].sockets[s].opened)
    /\ UNCHANGED now

\* a message event of socket s
Message(p, frames) ==
  \E s \in Live(provider[p]), buf \in frames :
    /\ provider[p].sockets[s].opened
    /\ StepFrame(p, onmessage(Begin(p), s, buf, now), "message", s, buf)
    /\ UNCHANGED now

\* the liveness watchdog ticks
CheckTick(p) ==
  /\ provider[p].checkInterval
  /\ Step(p, checkInterval(Begin(p), now), "check", 0, FALSE)
  /\ UNCHANGED now

\* the application sets its awareness state
SetLocalState(p) ==
  \E state \in AwStates :
    /\ provider[p].awareness.meta[ClientID(p)] < MaxClock
    /\ Step(p, setLocalState(Begin(p), state), "setLocalState", 0, FALSE)
    /\ UNCHANGED now

\* the application attaches a sub-document
AddSubdoc(p) ==
  \E guid \in Guids \ {Roomname} :
    /\ provider[p].nextHandler <= MaxHandlers
    /\ Step(p, addSubdoc(Begin(p), guid), "addSubdoc", 0, FALSE)
    /\ UNCHANGED now

\* the application detaches a sub-document
RemoveSubdoc(p) ==
  \E guid \in Guids \ {Roomname} :
    /\ provider' = Deliver(p, removeSubdoc(Begin(p), guid))
    /\ last' = [op |-> "removeSubdoc", p |-> p, s |-> 0, opened |-> FALSE, buf |-> guid]
    /\ UNCHANGED now

\* the application changes document id: a transaction whose origin is not
\* the provider
LocalUpdate(p) ==
  \E id \in Guids, op \in Ops :
    /\ id = Roomname \/ id \in Range(provider[p].docs)
    /\ op \notin provider[p].ydocs[id]
    /\ provider' = Deliver(p, transact(Begin(p), id, {op}, FALSE))
    /\ last' = [op |-> "update", p |-> p, s |-> op, opened |-> FALSE, buf |-> id]
    /\ UNCHANGED now

\* no event queue grows beyond the bound
InboxesFit == \A q \in Providers : Len(provider'[q].inbox) <= MaxInbox

\* the application calls provider.connectBc() of a session that is not
\* subscribed
ConnectBc(p) ==
  /\ ~provider[p].bcconnected
  /\ Step(p, connectBc(Begin(p)), "connectBc", 0, FALSE)
  /\ InboxesFit
  /\ UNCHANGED now

\* the message event of the local channel: the next frame of p's event
\* queue reaches the subscribers p has; its origin is another session
BcDeliver(p) ==
  /\ provider[p].inbox /= <<>>
  /\ LET B1(pr, buf) ==
           StepFrame(p, IF pr.bcconnected THEN bcSubscriber(pr, buf, FALSE) ELSE pr,
                     "bc", 0, buf)
     IN B1([Begin(p) EXCEPT !.inbox = Tail(@)], Head(provider[p].inbox))
  /\ InboxesFit
  /\ UNCHANGED now

\* a session outside the model publishes a frame on the topic: the message
\* event reaches _bcSubscriber of p while p is subscribed
BcReceive(p, frames) ==
  \E buf \in frames :
    /\ provider[p].bcconnected
    /\ StepFrame(p, bcSubscriber(Begin(p), buf, FALSE), "bc", 0, buf)
    /\ UNCHANGED now

\* a local change while the event queues have room
LocalUpdateBc(p) == LocalUpdate(p) /\ InboxesFit

\* time passes, up to an instant around the timeout
Elapse ==
  \E t \in {1, messageReconnectTimeout, messageReconnectTimeout + 1} :
    /\ now < t
    /\ t <= MaxTime
    /\ now' = t
    /\ last' = [op |-> "time", p |-> "A", s |-> 0, opened |-> FALSE, buf |-> <<>>]
    /\ UNCHANGED provider

\* time passes
AdvanceTime ==
  \E d \in {messageReconnectTimeout + 1} :
    /\ now + d <= MaxTime
    /\ now' = now + d
    /\ last' = [op |-> "time", p |-> "A", s |-> 0, opened |-> FALSE, buf |-> <<>>]
    /\ UNCHANGED provider

Next ==
  \/ Connect("A", MaxSockets)
  \/ Disconnect("A")
  \/ Destroy("A")
  \/ TimerFire("A", MaxSockets)
  \/ Open("A")
  \/ Error("A")
  \/ Close("A")
  \/ Message("A", SyncFrames)
  \/ CheckTick("A")
  \/ AdvanceTime

Spec == Init /\ [][Next]_vars

\* connecting, dropping and retrying
NextLive ==
  \/ Connect("A", MaxSockets)
  \/ Disconnect("A")
  \/ TimerFire("A", MaxSockets)
  \/ Open("A")
  \/ Error("A")
  \/ Close("A")

\* a retry timer that is set fires
LiveSpec == Init /\ [][NextLive]_vars /\ WF_vars(TimerFire("A", MaxSockets))

\* repeated connection attempts
NextBackoff ==
  \/ Connect("A", MaxAttempts)
  \/ TimerFire("A", MaxAttempts)
  \/ Open("A")
  \/ Close("A")

SpecBackoff == Init /\ [][NextBackoff]_vars

\* local and remote document updates
NextUpdates ==
  \/ Connect("A", MaxLinks)
  \/ Disconnect("A")
  \/ Destroy("A")
  \/ Open("A")
  \/ Close("A")
  \/ Message("A", UpdateFrames)
  \/ AddSubdoc("A")
  \/ LocalUpdate("A")

SpecUpdates == Init /\ [][NextUpdates]_vars

\* two sessions on one topic of the local channel
NextBc ==
  \/ \E p \in Providers : ConnectBc(p)
  \/ \E p \in Providers : LocalUpdateBc(p)
  \/ \E p \in Providers : BcDeliver(p)

SpecBc == Init /\ [][NextBc]_vars

\* the event loop can deliver the next frame of p's event queue: BcDeliver(p)
\* is enabled
BcPending(p) ==
  LET Fits(pr) == \A q \in Providers : Len(Deliver(p, pr)[q].inbox) <= MaxInbox
      Run(pr, buf) == IF pr.bcconnected THEN bcSubscriber(pr, buf, FALSE) ELSE pr
  IN /\ provider[p].inbox /= <<>>
     /\ Fits(Run([Begin(p) EXCEPT !.inbox = Tail(@)], Head(provider[p].inbox)))

\* the event loop delivers every message event that waits in a queue: weak
\* fairness of BcDeliver(p), WF_vars(BcDeliver(p)), with the enabling
\* condition written as the state predicate BcPending(p)
BcFair(p) == []<>(~BcPending(p)) \/ []<><<BcDeliver(p)>>_vars

LiveSpecBc == SpecBc /\ BcFair("A") /\ BcFair("B")

\* the constructor options with the local channel enabled or disabled
ChannelOptions == [connect : BOOLEAN, disableBc : BOOLEAN, resyncInterval : {FALSE}]

\* frames another session publishes on the topic
ChannelFrames ==
  { step2Frame(Roomname, {1}), step2Frame(SubGuid, {}), step2FrameNoGuid({2}),
    remoteAwarenessFrame(1, 1) }

InitChannel ==
  /\ \E opts \in ChannelOptions :
       provider = [p \in Providers |-> constructor(ClientID(p),
                     IF p = "A" THEN opts
                     ELSE [connect |-> FALSE, disableBc |-> FALSE,
                           resyncInterval |-> FALSE])]
  /\ now = 0
  /\ last = [op |-> "constructor", p |-> "A", s |-> 0, opened |-> FALSE, buf |-> <<>>]

\* the application calls provider.connectBc(), subscribed or not
CallConnectBc(p) ==
  /\ Step(p, connectBc(Begin(p)), "connectBc", 0, FALSE)
  /\ UNCHANGED now

\* the application calls provider.disconnectBc()
CallDisconnectBc(p) ==
  /\ Step(p, disconnectBc(Begin(p)), "disconnectBc", 0, FALSE)
  /\ UNCHANGED now

\* a session outside the model publishes a frame on the topic: the
\* subscriber of p runs if p is subscribed, and nothing runs otherwise
BcPublished(p, frames) ==
  \E buf \in frames :
    /\ StepFrame(p, IF provider[p].bcconnected THEN bcSubscriber(Begin(p), buf, FALSE)
                    ELSE Begin(p),
                 "bc", 0, buf)
    /\ UNCHANGED now

\* the local channel of one session, connected and disconnected at will
NextChannel ==
  \/ Connect("A", MaxLinks)
  \/ Disconnect("A")
  \/ Open("A")
  \/ Close("A")
  \/ CallConnectBc("A")
  \/ CallDisconnectBc("A")
  \/ BcPublished("A", ChannelFrames)
  \/ AddSubdoc("A")

SpecChannel == InitChannel /\ [][NextChannel]_vars

\* the message router on both transports
NextRouter ==
  \/ Connect("A", MaxLinks)
  \/ Open("A")
  \/ Close("A")
  \/ Message("A", RouterFrames)
  \/ BcReceive("A", RouterFrames)

SpecRouter == Init /\ [][NextRouter]_vars

\* the liveness watchdog around the timeout
NextWatchdog ==
  \/ Connect("A", MaxLinks)
  \/ TimerFire("A", MaxLinks)
  \/ Open("A")
  \/ Close("A")
  \/ Message("A", WatchFrames)
  \/ CheckTick("A")
  \/ Elapse

SpecWatchdog == Init /\ [][NextWatchdog]_vars

\* SYNC frames and their replies on the socket
NextReplies ==
  \/ Connect("A", MaxLinks)
  \/ Open("A")
  \/ Close("A")
  \/ Message("A", ReplyFrames)
  \/ AddSubdoc("A")

SpecReplies == Init /\ [][NextReplies]_vars

\* SYNC frames that either transport may deliver
TransportFrames ==
  { step1Frame(SubGuid, {}), step2Frame(Roomname, {1}), step2FrameNoGuid({2}),
    updateFrame(SubGuid, {2}) }

\* SYNC frames on both transports, interleaved with local changes
NextTransports ==
  \/ Connect("A", MaxLinks)
  \/ Open("A")
  \/ Message("A", TransportFrames)
  \/ BcPublished("A", TransportFrames)
  \/ AddSubdoc("A")
  \/ LocalUpdate("A")

SpecTransports == Init /\ [][NextTransports]_vars

\* frames that mark a sub-document as synced
SubdocFrames == { step2Frame(Roomname, {1}), step2Frame(SubGuid, {}) }

\* sub-documents attached, synced and detached
NextSubdocs ==
  \/ Connect("A", MaxLinks)
  \/ Open("A")
  \/ Close("A")
  \/ Message("A", SubdocFrames)
  \/ AddSubdoc("A")
  \/ RemoveSubdoc("A")

SpecSubdocs == Init /\ [][NextSubdocs]_vars

\* local changes of documents that are attached and detached
NextDetach ==
  \/ Connect("A", MaxLinks)
  \/ Open("A")
  \/ AddSubdoc("A")
  \/ RemoveSubdoc("A")
  \/ LocalUpdate("A")

SpecDetach == Init /\ [][NextDetach]_vars

\* the provider constructed with or without a resync interval
InitResync ==
  /\ \E opts \in [connect : BOOLEAN, disableBc : {FALSE}, resyncInterval : BOOLEAN] :
       provider = [p \in Providers |-> constructor(ClientID(p),
                     IF p = "A" THEN opts
                     ELSE [connect |-> FALSE, disableBc |-> FALSE,
                           resyncInterval |-> FALSE])]
  /\ now = 0
  /\ last = [op |-> "constructor", p |-> "A", s |-> 0, opened |-> FALSE, buf |-> <<>>]

\* the resync timer, armed by the constructor and not cleared, ticks
ResyncTick(p) ==
  /\ provider[p].resyncInterval
  /\ Step(p, resyncTick(Begin(p)), "resync", 0, FALSE)
  /\ UNCHANGED now

\* the periodic resync over the life of a provider
NextResync ==
  \/ Connect("A", MaxLinks)
  \/ Disconnect("A")
  \/ Destroy("A")
  \/ Open("A")
  \/ Close("A")
  \/ Message("A", SyncFrames)
  \/ ResyncTick("A")

SpecResync == InitResync /\ [][NextResync]_vars

\* sub-documents and presence over a few links
NextPresence ==
  \/ Connect("A", MaxLinks)
  \/ TimerFire("A", MaxLinks)
  \/ Open("A")
  \/ Close("A")
  \/ Message("A", PresenceFrames)
  \/ SetLocalState("A")
  \/ AddSubdoc("A")

SpecPresence == Init /\ [][NextPresence]_vars


----------------------------------------------------------------------------
(* Properties of the transport session.                                    *)

\* the session the properties speak of
PA == provider["A"]

Max(S) == CHOOSE x \in S : \A y \in S : y <= x

\* an effect of the last handler
Did(kind, name) == \E i \in 1..Len(PA.out) : PA.out[i].kind = kind /\ PA.out[i].name = name

\* the last step constructed a socket
Constructed == Len(PA.sockets') > Len(PA.sockets)

\* C1: at most one socket the provider constructed has not delivered its
\* close event, that socket is provider.ws, and a socket is constructed only
\* while provider.ws is null.
C1_OneLiveSocket ==
  /\ [](Cardinality(Live(PA)) <= 1 /\ Live(PA) \subseteq {PA.ws})
  /\ [][Constructed => PA.ws = 0 /\ Live(PA) = {}]_vars

\* a retry timer fired while a later socket was live and did nothing
C1_Witness ==
  /\ last.op = "timer"
  /\ PA.out = <<>>
  /\ Len(PA.sockets) >= 2
  /\ PA.ws = Len(PA.sockets)
  /\ PA.shouldConnect

\* C2: while should-stay-connected stays true, every close event is followed
\* by the construction of a new socket, and every construction emits status
\* 'connecting' (n counts the sockets constructed; the last one the bound
\* allows is left out).
C2_CloseLeadsToRetry ==
  /\ \A n \in 0..(MaxSockets - 1) :
       (last.op = "close" /\ Len(PA.sockets) = n /\ PA.shouldConnect)
         ~> (Len(PA.sockets) > n \/ ~PA.shouldConnect)
  /\ [][Constructed =>
          /\ PA.ws' = Len(PA.sockets')
          /\ \E i \in 1..Len(PA.out') :
               PA.out'[i].kind = "emit" /\ PA.out'[i].name = "status:connecting"]_vars

\* a retry timer constructed the next socket after a close
C2_Witness ==
  /\ last.op = "timer"
  /\ Did("emit", "status:connecting")
  /\ Len(PA.sockets) >= 2
  /\ PA.sockets[Len(PA.sockets) - 1].readyState = "CLOSED"

\* C3: while should-stay-connected is false no step other than connect()
\* constructs a socket, and a retry timer that fires then changes nothing
\* but the set of pending timers.
C3_NoRetryAfterDisconnect ==
  [][ ~PA.shouldConnect /\ last'.op /= "connect" =>
        /\ ~Constructed
        /\ last'.op = "timer" =>
             /\ PA.out' = <<>>
             /\ [PA' EXCEPT !.timers = EmptyBag, !.out = <<>>, !.threw = FALSE]
                  = [PA EXCEPT !.timers = EmptyBag, !.out = <<>>, !.threw = FALSE] ]_vars

\* after disconnect() and the close event, a pending retry timer fired
C3_Witness ==
  /\ last.op = "timer"
  /\ ~PA.shouldConnect
  /\ PA.ws = 0
  /\ Len(PA.sockets) >= 1
  /\ \A s \in 1..Len(PA.sockets) : PA.sockets[s].readyState = "CLOSED"

\* C4: connect() while a connection object exists constructs no socket, has
\* no effect (no event, nothing published or sent) and changes no field
\* other than should-stay-connected, which it sets.
C4_ConnectIdempotent ==
  [][ last'.op = "connect" /\ PA.ws /= 0 =>
        /\ PA'.shouldConnect
        /\ PA'.out = <<>>
        /\ [PA' EXCEPT !.shouldConnect = TRUE, !.out = <<>>, !.threw = FALSE]
             = [PA EXCEPT !.shouldConnect = TRUE, !.out = <<>>, !.threw = FALSE] ]_vars

\* connect() was called after disconnect() while the old socket was closing
C4_Witness ==
  /\ last.op = "connect"
  /\ PA.ws /= 0
  /\ PA.sockets[PA.ws].readyState = "CLOSING"
  /\ PA.shouldConnect
  /\ ~PA.bcconnected

\* the delay of the setTimeout the last handler called
ScheduledDelay ==
  LET evs == SelectSeq(PA.out, LAMBDA e : e.kind = "setTimeout") IN evs[1].n

\* the attempts that failed since the last socket that opened
FailedSinceOpen ==
  LET opened == {i \in 1..Len(PA.sockets) : PA.sockets[i].opened}
      from == IF opened = {} THEN 0 ELSE Max(opened)
  IN Cardinality({i \in (from + 1)..Len(PA.sockets) : PA.sockets[i].readyState = "CLOSED"})

BackoffTable == <<100, 200, 400, 800, 1600, 2500>>

C6_CloseAfterOpen ==
  /\ [](last.op = "close" /\ last.opened =>
          /\ ~PA.wsconnected
          /\ PA.ws = 0
          /\ ~PA.synced
          /\ DOMAIN PA.awareness.states \subseteq {PA.clientID})
  /\ [][last'.op = "close" /\ last'.opened =>
          /\ stateOf(PA'.awareness.states, PA.clientID)
               = stateOf(PA.awareness.states, PA.clientID)
          /\ PA'.awareness.meta[PA.clientID] = PA.awareness.meta[PA.clientID]]_vars

\* a link that had learned of a remote client closed; the local state stays
C6_Witness ==
  /\ last.op = "close"
  /\ last.opened
  /\ RemoteClient \in DOMAIN PA.awareness.meta
  /\ DOMAIN PA.awareness.states = {PA.clientID}

\* C7: the close event of a connection that never opened adds one to the
\* backoff counter, leaves the awareness table and synced as they were and
\* emits no status 'disconnected'; the close event of a connection that had
\* opened leaves the backoff counter as it was.
C7_CloseBeforeOpen ==
  [][ last'.op = "close" =>
        IF last'.opened
          THEN PA'.wsUnsuccessfulReconnects = PA.wsUnsuccessfulReconnects
          ELSE /\ PA'.wsUnsuccessfulReconnects = PA.wsUnsuccessfulReconnects + 1
               /\ PA'.awareness = PA.awareness
               /\ PA'.synced = PA.synced
               /\ \A i \in 1..Len(PA'.out) :
                    PA'.out[i].name /= "status:disconnected" ]_vars

\* the second attempt in a row failed
C7_Witness ==
  /\ last.op = "close"
  /\ ~last.opened
  /\ PA.wsUnsuccessfulReconnects = 2

\* C8: right after an open event the backoff counter is 0, connecting is
\* false, connected is true and synced is false.
C8_AfterOpen ==
  last.op = "open" =>
    /\ PA.wsUnsuccessfulReconnects = 0
    /\ ~PA.wsconnecting
    /\ PA.wsconnected
    /\ ~PA.synced

\* a link opened after an earlier link had synced (operation 1 only comes
\* with a step-2 frame for the primary document) and an attempt had failed
C8_Witness ==
  /\ last.op = "open"
  /\ 1 \in PA.ydocs[Roomname]
  /\ \E s \in 1..Len(PA.sockets) : ~PA.sockets[s].opened

\* the frame is a step-1 SYNC request carrying identifier k and state vector sv
IsStep1For(buf, k, sv) ==
  /\ readVarUint(buf, 0).val = messageSync
  /\ readVarString(buf, 1).ok
  /\ readVarString(buf, 1).val = k
  /\ readVarUint(buf, readVarString(buf, 1).pos).val = messageYjsSyncStep1
  /\ readVarUint8Array(buf, readVarString(buf, 1).pos + 1).val = sv
  /\ readVarUint8Array(buf, readVarString(buf, 1).pos + 1).pos = Len(buf)

\* the frame is an AWARENESS_UPDATE for exactly client c
IsAwarenessOf(buf, c) ==
  /\ readVarUint(buf, 0).val = messageAwareness
  /\ readVarUint8Array(buf, 1).ok
  /\ readVarUint8Array(buf, 1).pos = Len(buf)
  /\ readVarUint(readVarUint8Array(buf, 1).val, 0).val = 1
  /\ readVarUint(readVarUint8Array(buf, 1).val, 1).val = c

\* C9: the effects of an open event are, in this order: one step-1 SYNC
\* request on the new socket per document of the registry, in registry
\* order, the primary first; one AWARENESS_UPDATE for the local client if
\* and only if the local awareness state is not null; status 'connected'.
C9_OpenSends ==
  last.op = "open" =>
    LET n == Len(PA.docs)
        aw == IF getLocalState(PA) /= Null THEN 1 ELSE 0
    IN /\ Len(PA.out) = n + aw + 1
       /\ PA.docs[1] = Roomname
       /\ \A i \in 1..n :
            /\ PA.out[i].kind = "send"
            /\ PA.out[i].n = last.s
            /\ IsStep1For(PA.out[i].buf, PA.docs[i], encodeStateVector(PA.ydocs[PA.docs[i]]))
       /\ aw = 1 =>
            /\ PA.out[n + 1].kind = "send"
            /\ PA.out[n + 1].n = last.s
            /\ IsAwarenessOf(PA.out[n + 1].buf, PA.clientID)
       /\ PA.out[n + aw + 1] = Ev("emit", 0, <<>>, "status:connected")

\* a link opened with two sub-documents attached and a local awareness state
C9_Witness ==
  /\ last.op = "open"
  /\ Len(PA.docs) = 3
  /\ getLocalState(PA) /= Null

\* a link opened while the local awareness state was null
C9_WitnessNull ==
  /\ last.op = "open"
  /\ Len(PA.docs) = 2
  /\ getLocalState(PA) = Null

\* C10: synced goes from true to false only in the close event of the live
\* socket, so it rises at most once between the open and the close of a
\* connection; it is false right after every open and every close event.
C10_SyncedOncePerLink ==
  /\ [][PA.synced /\ ~PA'.synced => last'.op = "close" /\ last'.s = PA.ws]_vars
  /\ [][~PA.synced /\ PA'.synced =>
          last'.op = "message" /\ last'.s = PA.ws /\ PA.wsconnected]_vars
  /\ [](last.op \in {"open", "close"} => ~PA.synced)

\* a second step-2 frame arrived on a link that had synced
C10_Witness ==
  /\ last.op = "message"
  /\ PA.synced
  /\ \A i \in 1..Len(PA.out) : PA.out[i].name /= "synced"


\* the 'synced' notifications among the effects out
SyncedEmits(out) == SelectSeq(out, LAMBDA e : e.kind = "emit" /\ e.name = "synced")

\* C11: a handler emits 'synced' once, with the new value, if it changes the
\* primary synced flag and not at all otherwise; a frame received while
\* synced emits none.
C11_SyncedOncePerChange ==
  [][ last'.op /= "time" =>
        /\ Len(SyncedEmits(PA'.out)) = IF PA'.synced /= PA.synced THEN 1 ELSE 0
        /\ PA'.synced /= PA.synced =>
             SyncedEmits(PA'.out)[1].n = IF PA'.synced THEN 1 ELSE 0
        /\ last'.op = "message" /\ PA.synced =>
             PA'.synced /\ SyncedEmits(PA'.out) = <<>> ]_vars

\* a step-2 frame for the primary document arrived while synced
C11_Witness ==
  /\ last.op = "message"
  /\ last.buf = step2Frame(Roomname, {1})
  /\ PA.synced
  /\ 1 \in PA.ydocs[Roomname]
  /\ PA.out = <<>>


\* C12: after the close event of a connection that had opened, no
\* sub-document has a true entry in the sync-status map.
C12_SubdocStatusReset ==
  last.op = "close" /\ last.opened =>
    \A id \in DOMAIN PA.syncedStatus : ~PA.syncedStatus[id]


\* the subdoc_synced notifications among the effects out
SubdocSyncedEmits(out) ==
  SelectSeq(out, LAMBDA e : e.kind = "emit" /\ e.name = "subdoc_synced")

\* the last step received, over the remote connection, a step-2 frame that
\* carries the identifier g of a sub-document attached to the provider
Step2ForAttached(g) ==
  /\ last'.op = "message"
  /\ g /= Roomname
  /\ g \in Range(PA.docs)
  /\ \E ops \in SUBSET Ops : last'.buf = step2Frame(g, ops)

\* C13: a step-2 frame that carries the identifier of an attached
\* sub-document whose sync status is not true sets the status to true and
\* emits subdoc_synced(id, true) once; while the status is true it emits
\* nothing and leaves the sync-status map as it was.
C13_SubdocSyncedOnce ==
  [][ \A g \in Guids : Step2ForAttached(g) =>
        IF syncedStatusGet(PA, g)
          THEN /\ SubdocSyncedEmits(PA'.out) = <<>>
               /\ PA'.syncedStatus = PA.syncedStatus
          ELSE /\ syncedStatusGet(PA', g)
               /\ SubdocSyncedEmits(PA'.out) = <<Ev("emit", 1, g, "subdoc_synced")>> ]_vars


\* the frame is a SYNC update message, with or without identifier
IsUpdateFrame(buf) ==
  /\ readVarUint(buf, 0).ok
  /\ readVarUint(buf, 0).val = messageSync
  /\ \/ readVarUint(buf, 1).val = messageYjsUpdate
     \/ /\ readVarString(buf, 1).ok
        /\ readVarUint(buf, readVarString(buf, 1).pos).val = messageYjsUpdate

\* what broadcastMessage does with one frame in the state pr
BroadcastOf(pr, buf) ==
  (IF pr.wsconnected /\ pr.ws /= 0 THEN <<Ev("send", pr.ws, buf, "")>> ELSE <<>>)
    \o (IF pr.bcconnected THEN <<Ev("publish", 0, buf, "")>> ELSE <<>>)

\* C14: a frame received from the remote peer, whose update the provider
\* applies itself, makes the provider send or publish no update frame; a
\* local change of a document the provider listens to makes it broadcast
\* one update frame with the document's identifier: sent on the socket if
\* and only if connected, published if and only if subscribed.
C14_NoEchoOneFrame ==
  [][ /\ last'.op = "message" =>
           \A i \in 1..Len(PA'.out) :
             PA'.out[i].kind \in {"send", "publish"} => ~IsUpdateFrame(PA'.out[i].buf)
      /\ ( /\ last'.op = "update"
           /\ IF last'.buf = Roomname THEN PA.docListener
              ELSE last'.buf \in Range(PA.docs) ) =>
           PA'.out = BroadcastOf(PA, docUpdateFrame(last'.buf, encodeUpdate({last'.s}))) ]_vars


\* the other session of the topic
PB == provider["B"]

\* both sessions are subscribed and every published frame has been delivered
BcQuiet ==
  /\ PA.bcconnected
  /\ PB.bcconnected
  /\ PA.inbox = <<>>
  /\ PB.inbox = <<>>

\* C15: with no socket open, whenever both sessions are subscribed and every
\* frame published on the topic has been delivered, the two primary
\* documents hold the same operations: each contains every local change of
\* the other.
C15_BcConverges ==
  (BcQuiet /\ \A p \in Providers : \A s \in 1..Len(provider[p].sockets) :
                ~provider[p].sockets[s].opened)
    => PA.ydocs[Roomname] = PB.ydocs[Roomname]

\* B's reply to an update frame of A, the kind and the identifier alone,
\* was the last frame to be delivered; both documents hold both changes
C15_Witness ==
  /\ last.op = "bc"
  /\ last.p = "A"
  /\ last.buf = writeVarString(writeVarUint(<<>>, messageSync), Roomname)
  /\ BcQuiet
  /\ PA.ydocs[Roomname] = Ops
  /\ PB.ydocs[Roomname] = Ops


\* C16: destroy() clears the resync timer if one is armed, then the
\* watchdog, then disconnects, then unregisters its listeners; when it has
\* returned the provider has no update listener left on the primary
\* document, on any sub-document or on the awareness table.
C16_DestroyUnregisters ==
  last.op = "destroy" =>
    /\ Len(PA.out) >= 3
    /\ PA.out[1] = Ev("clearInterval", 0, <<>>, "checkInterval")
    /\ PA.out[Len(PA.out) - 1] = Ev("off", 0, <<>>, "awareness")
    /\ PA.out[Len(PA.out)] = Ev("off", 0, <<>>, "doc")
    /\ \A i \in 2..(Len(PA.out) - 2) :
         PA.out[i].kind \in {"send", "publish", "unsubscribe", "close"}
    /\ ~PA.checkInterval /\ ~PA.resyncInterval /\ ~PA.shouldConnect
    /\ ~PA.docListener /\ ~PA.awarenessListener
    /\ \A g \in DOMAIN PA.subdocListeners : PA.subdocListeners[g] = {}


\* C17: whatever frame arrives on the socket or on the local channel, the
\* message callback returns without an exception, and the connection and
\* the subscription stay as they were.
C17_NoExceptionEscapes ==
  [][ last'.op \in {"message", "bc"} =>
        /\ ~PA'.threw
        /\ PA'.ws = PA.ws
        /\ PA'.sockets = PA.sockets
        /\ PA'.wsconnected = PA.wsconnected
        /\ PA'.bcconnected = PA.bcconnected ]_vars


\* the provider at the entry of a handler
Entry(pr) == [pr EXCEPT !.out = <<>>, !.threw = FALSE]

\* C18: a frame of a kind without handler is logged and dropped: the router
\* returns an empty reply and logs one line, whatever the kind; the callback
\* of either transport sends and publishes nothing, raises no exception and
\* changes nothing of the provider (the time of the last message aside).
C18_UnknownKindDropped ==
  /\ [](\A k \in (messageQueryAwareness + 1)..MaxKind, e \in BOOLEAN :
          readMessage(Entry(PA), <<k>>, e)
            = [pr |-> console(Entry(PA), "Unable to compute message"), encoder |-> <<>>])
  /\ [][ last'.op \in {"message", "bc"} /\ last'.buf = <<UnknownKind>> =>
           /\ PA'.out = <<Ev("console", 0, <<>>, "Unable to compute message")>>
           /\ ~PA'.threw
           /\ [PA' EXCEPT !.out = <<>>, !.wsLastMessageReceived = 0]
                = [Entry(PA) EXCEPT !.wsLastMessageReceived = 0] ]_vars

\* a frame of an unknown kind arrived on a connection that had synced
C18_Witness ==
  /\ last.op = "message"
  /\ last.buf = <<UnknownKind>>
  /\ PA.wsconnected
  /\ PA.synced
  /\ PA.sockets[last.s].readyState = "OPEN"


\* C19: a watchdog tick closes the socket if the session is connected and
\* more than the timeout has passed since the last message or the open, and
\* does nothing at all otherwise; the close event of a socket that was
\* closing schedules the reconnect with the backoff delay.
C19_WatchdogAtTimeout ==
  [][ /\ last'.op = "check" =>
           IF PA.wsconnected /\ now - PA.wsLastMessageReceived > messageReconnectTimeout
             THEN /\ PA'.out = <<Ev("close", PA.ws, <<>>, "")>>
                  /\ PA'.sockets[PA.ws].readyState = "CLOSING"
                  /\ PA'.ws = PA.ws
             ELSE PA' = Entry(PA)
      /\ (last'.op = "close" /\ PA.sockets[last'.s].readyState = "CLOSING") =>
           /\ \E i \in 1..Len(PA'.out) :
                PA'.out[i] = Ev("setTimeout",
                                Min(Pow2(PA'.wsUnsuccessfulReconnects) * 100, maxBackoffTime),
                                <<>>, "setupWS")
           /\ BagIn(Min(Pow2(PA'.wsUnsuccessfulReconnects) * 100, maxBackoffTime),
                    PA'.timers) ]_vars

\* the tick one millisecond past the timeout closed the open socket
C19_Witness ==
  /\ last.op = "check"
  /\ now = messageReconnectTimeout + 1
  /\ PA.wsLastMessageReceived = 0
  /\ PA.wsconnected
  /\ PA.out = <<Ev("close", PA.ws, <<>>, "")>>
  /\ PA.sockets[PA.ws].readyState = "CLOSING"


RECURSIVE UpdateClients(_, _, _)
\* the client identifiers of the n entries of an awareness update from pos
UpdateClients(arr, pos, n) ==
  LET U1(c) ==
        LET U2(st) == {c.val} \cup UpdateClients(arr, st.pos, n - 1)
        IN U2(readVarString(arr, readVarUint(arr, c.pos).pos))
  IN IF n = 0 THEN {} ELSE U1(readVarUint(arr, pos))

\* the reply is one AWARENESS_UPDATE frame whose entries are the clients
IsAwarenessReplyFor(encoder, clients) ==
  LET R1(u) ==
        /\ u.ok
        /\ u.pos = Len(encoder)
        /\ readVarUint(u.val, 0).val = Cardinality(clients)
        /\ UpdateClients(u.val, 1, Cardinality(clients)) = clients
  IN /\ readVarUint(encoder, 0).val = messageAwareness
     /\ R1(readVarUint8Array(encoder, 1))

\* C20: routing a QUERY_AWARENESS frame yields a reply of kind
\* AWARENESS_UPDATE whose entries are exactly the keys of the local awareness
\* table, and leaves the provider as it was.
C20_QueryAwarenessReply ==
  /\ [](\A e \in BOOLEAN :
          LET Q(r) == /\ r.pr = Entry(PA)
                      /\ IsAwarenessReplyFor(r.encoder, DOMAIN PA.awareness.states)
          IN Q(readMessage(Entry(PA), writeVarUint(<<>>, messageQueryAwareness), e)))
  /\ [][ ( /\ last'.op = "message"
           /\ last'.buf = writeVarUint(<<>>, messageQueryAwareness) ) =>
           [PA' EXCEPT !.out = <<>>, !.wsLastMessageReceived = 0]
             = [Entry(PA) EXCEPT !.wsLastMessageReceived = 0] ]_vars

\* the query arrived while the table held the local and a remote client
C20_Witness ==
  /\ last.op = "message"
  /\ last.buf = writeVarUint(<<>>, messageQueryAwareness)
  /\ DOMAIN PA.awareness.states = {PA.clientID, RemoteClient}


\* C21: in every state the connection reference is null exactly when the
\* session is neither connecting nor connected, the two flags are never both
\* true, and a non-null reference comes with exactly one of them.
C21_ConnectionFlags ==
  /\ (PA.ws = 0) <=> (~PA.wsconnecting /\ ~PA.wsconnected)
  /\ ~(PA.wsconnecting /\ PA.wsconnected)
  /\ PA.ws /= 0 => (PA.wsconnecting /= PA.wsconnected)

\* a second socket is connecting after the first one opened and was closed
C21_Witness ==
  /\ PA.ws = 2
  /\ PA.wsconnecting
  /\ ~PA.wsconnected
  /\ PA.sockets[1].opened
  /\ PA.sockets[1].readyState = "CLOSED"


\* every frame published on the topic has been delivered
QueuesEmpty == \A p \in Providers : provider[p].inbox = <<>>

\* C22: the subscriber routes no frame whose origin is its own provider,
\* and the replies that deliveries on the topic trigger come to an end: once
\* the sessions publish nothing of their own, after finitely many deliveries
\* no frame is left and none is published any more.
C22_ReplyChainEnds ==
  /\ [](\A p \in Providers : \A i \in 1..Len(provider[p].out) :
          provider[p].out[i].kind = "publish" =>
            bcSubscriber(Entry(provider[p]), provider[p].out[i].buf, TRUE)
              = Entry(provider[p]))
  /\ <>[]QueuesEmpty

\* the reply to a reply, the kind and the identifier alone, reached B and
\* ended the chain: B published nothing
C22_Witness ==
  /\ last.op = "bc"
  /\ last.p = "B"
  /\ last.buf = writeVarString(writeVarUint(<<>>, messageSync), Roomname)
  /\ PB.out = <<>>
  /\ QueuesEmpty


\* the effects of kind publish, as the frames published
PublishEv(buf) == Ev("publish", 0, buf, "")

\* C23: connectBc() with the local channel enabled subscribes only when the
\* provider is not subscribed, and on every call publishes, in this order, a
\* step-1 SYNC request, a step-2 SYNC response with the whole primary
\* document, a QUERY_AWARENESS request and an AWARENESS_UPDATE for the local
\* client; with the local channel disabled it does nothing at all.
C23_ConnectBcPublishes ==
  [][ last'.op = "connectBc" =>
        IF PA.disableBc THEN PA' = Entry(PA)
        ELSE /\ PA'.bcconnected
             /\ Len(PA'.out) = IF PA.bcconnected THEN 4 ELSE 5
             /\ ~PA.bcconnected => PA'.out[1] = Ev("subscribe", 0, <<>>, "")
             /\ \A i \in 1..Len(PA'.out) :
                  PA'.out[i].kind = "subscribe" => i = 1 /\ ~PA.bcconnected
             /\ LET k == Len(PA'.out) - 4
                IN /\ PA'.out[k + 1] = PublishEv(step1FrameNoGuid(PA.ydocs[Roomname]))
                   /\ PA'.out[k + 2] = PublishEv(step2FrameNoGuid(PA.ydocs[Roomname]))
                   /\ PA'.out[k + 3] = PublishEv(<<messageQueryAwareness>>)
                   /\ PA'.out[k + 4].kind = "publish"
                   /\ IsAwarenessOf(PA'.out[k + 4].buf, PA.clientID) ]_vars

\* connectBc() was called on a subscribed provider: four frames, no
\* subscription
C23_Witness ==
  /\ last.op = "connectBc"
  /\ ~PA.disableBc
  /\ Len(PA.out) = 4
  /\ PA.bcconnected
  /\ PA.out[1].kind = "publish"

\* connectBc() was called with the local channel disabled
C23_WitnessDisabled ==
  /\ last.op = "connectBc"
  /\ PA.disableBc
  /\ PA.out = <<>>
  /\ ~PA.bcconnected


\* the frame is an AWARENESS_UPDATE that gives client c the state null
IsTombstoneOf(buf, c) ==
  /\ IsAwarenessOf(buf, c)
  /\ readVarString(readVarUint8Array(buf, 1).val, 3).val = <<110, 117, 108, 108>>

\* C24: when disconnectBc() runs on a subscribed provider, whether called
\* directly, by disconnect() or by destroy(), an AWARENESS_UPDATE with the
\* state null for the local client is published on the topic, and only then
\* the provider unsubscribes; afterwards it is not subscribed, and a frame
\* published on the topic while it is not subscribed changes nothing.
C24_TombstoneThenUnsubscribe ==
  [][ /\ ( /\ last'.op \in {"disconnectBc", "disconnect", "destroy"}
           /\ PA.bcconnected ) =>
           \E i, j \in 1..Len(PA'.out) :
             /\ i < j
             /\ PA'.out[i].kind = "publish"
             /\ IsTombstoneOf(PA'.out[i].buf, PA.clientID)
             /\ PA'.out[j] = Ev("unsubscribe", 0, <<>>, "")
             /\ \A m \in 1..Len(PA'.out) :
                  (PA'.out[m].kind = "unsubscribe" => m = j)
                    /\ (PA'.out[m].kind = "publish" => m = i)
      /\ last'.op \in {"disconnectBc", "disconnect", "destroy"} => ~PA'.bcconnected
      /\ (last'.op = "bc" /\ ~PA.bcconnected) => PA' = Entry(PA) ]_vars

\* a frame was published on the topic after the provider had unsubscribed
C24_Witness ==
  /\ last.op = "bc"
  /\ ~PA.bcconnected
  /\ PA.bcChannel
  /\ ~PA.disableBc
  /\ PA.out = <<>>


\* C25: a frame received on the local channel never changes the primary
\* synced flag or the sub-document sync-status map and never emits 'synced',
\* 'sync' or 'subdoc_synced', a step-2 SYNC frame included.
C25_BcLeavesSyncState ==
  [][ last'.op = "bc" =>
        /\ PA'.synced = PA.synced
        /\ PA'.syncedStatus = PA.syncedStatus
        /\ \A i \in 1..Len(PA'.out) :
             PA'.out[i].kind = "emit" =>
               PA'.out[i].name \notin {"synced", "sync", "subdoc_synced"} ]_vars

\* a step-2 frame for an attached sub-document that the root map holds came
\* by the local channel while the socket was open and nothing had synced
C25_Witness ==
  /\ last.op = "bc"
  /\ last.buf = step2Frame(SubGuid, {})
  /\ PA.bcconnected
  /\ SubGuid \in Range(PA.docs)
  /\ rootMapHas(PA.ydocs[Roomname], SubGuid)
  /\ PA.wsconnected
  /\ ~PA.synced
  /\ PA.syncedStatus = EmptyMap
  /\ PA.out = <<PublishEv(writeVarString(writeVarUint(<<>>, messageSync), SubGuid))>>


\* the frames the last handler sent on a socket
Sends(out) == SelectSeq(out, LAMBDA e : e.kind = "send")

\* C26: for a SYNC frame received on the socket, without an identifier or
\* with the identifier of a document of the registry: a step-1 request is
\* answered by exactly one frame on the same socket, the step-2 response
\* with the operations the peer lacks and the identifier the request
\* carried; a step-2 response or an update is answered by no frame.
C26_ReplyOnlyToStep1 ==
  [][ last'.op = "message" =>
        /\ \A ops \in SUBSET Ops :
             /\ last'.buf = step1FrameNoGuid(ops) =>
                  Sends(PA'.out)
                    = <<Ev("send", last'.s,
                           step2FrameNoGuid(PA.ydocs[Roomname] \ ops), "")>>
             /\ last'.buf \in {step2FrameNoGuid(ops), updateFrameNoGuid(ops)} =>
                  Sends(PA'.out) = <<>>
        /\ \A g \in Guids, ops \in SUBSET Ops :
             g \in Range(PA.docs) =>
               /\ last'.buf = step1Frame(g, ops) =>
                    Sends(PA'.out)
                      = <<Ev("send", last'.s, step2Frame(g, PA.ydocs[g] \ ops), "")>>
               /\ last'.buf \in {step2Frame(g, ops), updateFrame(g, ops)} =>
                    Sends(PA'.out) = <<>> ]_vars


\* C27: when a QUERY_AWARENESS frame arrives on the socket, the
\* AWARENESS_UPDATE reply of the router, with the entries of the local
\* awareness table, is sent on that socket.
C27_QueryReplySent ==
  [][ ( /\ last'.op = "message"
        /\ last'.buf = writeVarUint(<<>>, messageQueryAwareness) ) =>
        /\ Len(Sends(PA'.out)) = 1
        /\ Sends(PA'.out)[1].n = last'.s
        /\ IsAwarenessReplyFor(Sends(PA'.out)[1].buf, DOMAIN PA.awareness.states) ]_vars


\* the SYNC payloads of the frames: the step type and its byte array
SyncPayloads ==
  { writeVarUint8Array(writeVarUint(<<>>, messageYjsSyncStep1), encodeStateVector(ops)) :
      ops \in SUBSET Ops }
  \cup { writeVarUint8Array(writeVarUint(<<>>, t), encodeUpdate(ops)) :
           t \in {messageYjsSyncStep2, messageYjsUpdate}, ops \in SUBSET Ops }

\* what the router makes of frame buf: the documents and the reply
Routed(pr, buf) ==
  LET R(r) == [ydocs |-> r.pr.ydocs, encoder |-> r.encoder, threw |-> r.pr.threw]
  IN R(readMessage(pr, buf, TRUE))

\* the SYNC payload applied to document id with a reply that starts as header
Applied(pr, payload, header, id) ==
  LET R(r) == [ydocs |-> r.pr.ydocs, encoder |-> r.encoder, threw |-> r.pr.threw]
  IN R(readSyncMessage(pr, payload, 0, header, id))

\* C28: a SYNC frame without identifier, or whose identifier cannot be
\* decoded or names no document of the registry, is applied to the primary
\* document from the byte after the kind, and the reply has no identifier;
\* a SYNC frame whose identifier is the room name or an attached
\* sub-document is applied to that document, and the reply carries the
\* identifier.
C28_IdentifierResolution ==
  \A payload \in SyncPayloads :
    /\ Routed(Entry(PA), <<messageSync>> \o payload)
         = Applied(Entry(PA), payload, <<messageSync>>, Roomname)
    /\ \A g \in (Guids \cup {OtherGuid}) \ Range(PA.docs) :
         Routed(Entry(PA), writeVarString(<<messageSync>>, g) \o payload)
           = Applied(Entry(PA), writeVarString(<<>>, g) \o payload, <<messageSync>>,
                     Roomname)
    /\ \A g \in Range(PA.docs) :
         Routed(Entry(PA), writeVarString(<<messageSync>>, g) \o payload)
           = Applied(Entry(PA), payload, writeVarString(<<messageSync>>, g), g)


\* g is a key of the root map of the primary document, but no document is
\* registered under it
Unregistered(g) ==
  /\ g /= Roomname
  /\ rootMapHas(PA.ydocs[Roomname], g)
  /\ g \notin Range(PA.docs)

\* C29: a SYNC frame that resolves to a document that is not in the
\* registry gives an empty result, whether it ends after the identifier or
\* carries a payload: the router returns an empty reply and leaves the
\* provider as it was, without an exception, and the message callback sends
\* nothing.
C29_UnregisteredDropped ==
  /\ [](\A g \in Guids, e \in BOOLEAN,
          payload \in SyncPayloads \cup {<<>>} :
          Unregistered(g) =>
            readMessage(Entry(PA), writeVarString(<<messageSync>>, g) \o payload, e)
              = [pr |-> Entry(PA), encoder |-> <<>>])
  /\ [][ \A g \in Guids, payload \in SyncPayloads \cup {<<>>} :
           ( /\ last'.op = "message"
             /\ Unregistered(g)
             /\ last'.buf = writeVarString(<<messageSync>>, g) \o payload ) =>
             [PA' EXCEPT !.wsLastMessageReceived = 0]
               = [Entry(PA) EXCEPT !.wsLastMessageReceived = 0] ]_vars

\* a step-2 response with an update arrived for a sub-document that the
\* root map holds and nobody had attached
C29_Witness ==
  /\ last.op = "message"
  /\ last.buf = step2Frame(SubGuid, {1})
  /\ Unregistered(SubGuid)
  /\ PA.out = <<>>
  /\ PA.ydocs[SubGuid] = {}

\* the frame ended after the identifier
C29_WitnessHeader ==
  /\ last.op = "message"
  /\ last.buf = writeVarString(<<messageSync>>, SubGuid)
  /\ Unregistered(SubGuid)
  /\ PA.out = <<>>


\* the values the sync-completion state of a provider can take
SyncStates == [synced : BOOLEAN, status : {EmptyMap, SubGuid :> TRUE}]

\* C30: whichever transport delivers a SYNC frame, the documents end up the
\* same: the documents after the frame was routed are those the socket's
\* callback and those the local channel's subscriber produce from the state
\* before, whatever the sync-completion state that earlier frames left
\* behind on either path; the registry is not touched.  So any sequence of
\* local changes and received frames gives the same documents on either
\* path.
C30_TransportIndependent ==
  [][ ( /\ last'.op \in {"message", "bc"}
        /\ last'.op = "bc" => PA.bcconnected ) =>
        /\ PA'.docs = PA.docs
        /\ \A y \in SyncStates :
             LET Same(alt) ==
                   /\ bcSubscriber(alt, last'.buf, FALSE).ydocs = PA'.ydocs
                   /\ onmessage(alt, 1, last'.buf, now).ydocs = PA'.ydocs
             IN Same([Entry(PA) EXCEPT !.synced = y.synced,
                                       !.syncedStatus = y.status]) ]_vars

\* after a local change of an attached sub-document, an update for it came
\* by the local channel while the socket was open, and was applied
C30_Witness ==
  /\ last.op = "bc"
  /\ last.buf = updateFrame(SubGuid, {2})
  /\ PA.bcconnected
  /\ PA.wsconnected
  /\ PA.ydocs[SubGuid] = {1, 2}
  /\ PA.ydocs[Roomname] = {1}


C32_EveryCloseCounts ==
  [][ /\ PA'.wsUnsuccessfulReconnects >= 0
      /\ last'.op = "close" =>
           PA'.wsUnsuccessfulReconnects = PA.wsUnsuccessfulReconnects + 1
      /\ last'.op = "open" => PA'.wsUnsuccessfulReconnects = 0 ]_vars

\* C32, amended: the backoff counter is a non-negative integer; the close
\* event of a connection that never opened adds one to it, the close event
\* of a connection that had opened leaves it at zero, an open event resets
\* it to zero, and nothing else changes it.
C32_FailedCloseCounts ==
  [][ /\ PA'.wsUnsuccessfulReconnects \in Nat
      /\ IF last'.op = "close"
           THEN IF last'.opened
                  THEN PA.wsUnsuccessfulReconnects = 0 /\ PA'.wsUnsuccessfulReconnects = 0
                  ELSE PA'.wsUnsuccessfulReconnects = PA.wsUnsuccessfulReconnects + 1
         ELSE IF last'.op = "open" THEN PA'.wsUnsuccessfulReconnects = 0
         ELSE PA'.wsUnsuccessfulReconnects = PA.wsUnsuccessfulReconnects ]_vars

\* a link dropped that had opened after a failed attempt; the counter is zero
C32_Witness ==
  /\ last.op = "close"
  /\ last.opened
  /\ PA.wsUnsuccessfulReconnects = 0
  /\ ~PA.sockets[1].opened
  /\ PA.sockets[1].readyState = "CLOSED"


\* C33: removeSubdoc(doc) takes the update listener off the document and
\* changes nothing else: the registry still holds the document, so getDoc
\* returns it and every open sends a step-1 request for it, and the
\* sync-status map is as it was.
C33_RemoveKeepsRegistry ==
  /\ [][ last'.op = "removeSubdoc" =>
           /\ [PA' EXCEPT !.subdocListeners = PA.subdocListeners] = Entry(PA)
           /\ PA'.subdocListeners[last'.buf] \subseteq PA.subdocListeners[last'.buf]
           /\ \A g \in DOMAIN PA.subdocListeners :
                g /= last'.buf => PA'.subdocListeners[g] = PA.subdocListeners[g]
           /\ getDoc(PA', last'.buf) = getDoc(PA, last'.buf) ]_vars
  /\ [][ Range(PA.docs) \subseteq Range(PA'.docs) ]_vars
  /\ [](last.op = "open" =>
          \A k \in Range(PA.docs) :
            \E i \in 1..Len(PA.out) :
              /\ PA.out[i].kind = "send"
              /\ IsStep1For(PA.out[i].buf, k, encodeStateVector(PA.ydocs[k])))

\* a socket opened after a synced sub-document had been detached: the
\* sub-document has no listener, is in the registry and counts as synced
C33_Witness ==
  /\ last.op = "open"
  /\ SubGuid \in Range(PA.docs)
  /\ PA.subdocUpdateHandlers[SubGuid] /= 0
  /\ PA.subdocListeners[SubGuid] = {}
  /\ syncedStatusGet(PA, SubGuid)
  /\ \E i \in 1..Len(PA.out) :
       IsStep1For(PA.out[i].buf, SubGuid, encodeStateVector(PA.ydocs[SubGuid]))


\* the frame is a step-1 SYNC request without identifier
IsStep1NoGuid(buf) == \E ops \in SUBSET Ops : buf = step1FrameNoGuid(ops)

\* C34: a tick of the resync timer sends exactly one step-1 SYNC request
\* for the primary document on the socket if the socket is open, and
\* nothing if there is no socket or it is not open; it changes nothing of
\* the provider, the connection state and the synced flag included.  A
\* provider constructed without resync interval never ticks and never sends
\* such a request.
C34_ResyncTick ==
  [][ /\ last'.op = "resync" =>
           /\ PA.resyncInterval
           /\ [PA' EXCEPT !.out = <<>>] = Entry(PA)
           /\ PA'.out = IF PA.ws /= 0 /\ PA.sockets[PA.ws].readyState = "OPEN"
                          THEN <<Ev("send", PA.ws,
                                    step1FrameNoGuid(PA.ydocs[Roomname]), "")>>
                          ELSE <<>>
      /\ ~PA.resyncInterval =>
           /\ ~PA'.resyncInterval
           /\ \A i \in 1..Len(PA'.out) :
                PA'.out[i].kind = "send" => ~IsStep1NoGuid(PA'.out[i].buf) ]_vars

\* a tick on an open and synced socket sent the request with the state
\* vector of the primary document
C34_Witness ==
  /\ last.op = "resync"
  /\ PA.synced
  /\ PA.wsconnected
  /\ PA.out = <<Ev("send", PA.ws, step1FrameNoGuid({1}), "")>>

\* a tick while the socket was closing sent nothing
C34_WitnessClosing ==
  /\ last.op = "resync"
  /\ PA.ws /= 0
  /\ PA.sockets[PA.ws].readyState = "CLOSING"
  /\ PA.out = <<>>


\* C35: whenever the synced flag of the primary document is true the
\* session is connected: there is a socket, it has opened, and the provider
\* is flagged connected and not connecting.  The flag is never true while
\* the provider is idle, connecting or waiting for a retry.
C35_SyncedImpliesConnected ==
  PA.synced =>
    /\ PA.ws /= 0
    /\ PA.sockets[PA.ws].opened
    /\ PA.wsconnected
    /\ ~PA.wsconnecting

\* the flag was set on a second socket, after the first was dropped
C35_Witness ==
  /\ PA.synced
  /\ PA.ws > 1
  /\ last.op = "message"


\* C36: whenever the most recent of the connect() and disconnect() calls
\* was connect() (should-stay-connected is set) and the local channel is
\* not disabled, the provider is subscribed to the local channel, also when
\* connect() was called before the close event of the old socket.
C36_ConnectSubscribes ==
  PA.shouldConnect /\ ~PA.disableBc => PA.bcconnected


\* the last of the addSubdoc and removeSubdoc calls for the document was
\* removeSubdoc: the handler the map holds has been taken off the document
Removed(pr, guid) ==
  /\ pr.subdocUpdateHandlers[guid] /= 0
  /\ pr.subdocUpdateHandlers[guid] \notin pr.subdocListeners[guid]

\* C37: once removeSubdoc(doc) has returned, a local change of doc makes the
\* provider send and publish nothing, whatever addSubdoc and removeSubdoc
\* calls came before, addSubdoc called twice for the document included.
C37_RemovedIsSilent ==
  [][ last'.op = "update" /\ last'.buf /= Roomname /\ Removed(PA, last'.buf) =>
        \A i \in 1..Len(PA'.out) : PA'.out[i].kind \notin {"send", "publish"} ]_vars


\* the frame is a step-1 SYNC request with an identifier
IsStep1Request(buf) ==
  \E g \in Guids, sv \in SUBSET Ops : buf = step1Frame(g, sv)

\* C38: a local change made while neither transport is connected is
\* neither sent nor published nor kept anywhere but in the document; the
\* open of the socket sends step-1 requests (and the awareness state) but no
\* update; a step-1 request the remote peer sends for a document of the
\* registry is answered with the step-2 response holding every operation of
\* the document the peer lacks, the changes made while disconnected
\* included.
C38_OfflineChangesReachByReply ==
  [][ /\ last'.op = "update" /\ ~PA.wsconnected /\ ~PA.bcconnected =>
           /\ PA'.out = <<>>
           /\ [PA' EXCEPT !.ydocs = PA.ydocs] = Entry(PA)
      /\ last'.op = "open" =>
           \A i \in 1..Len(PA'.out) :
             PA'.out[i].kind = "send" =>
               \/ IsStep1Request(PA'.out[i].buf)
               \/ IsAwarenessOf(PA'.out[i].buf, PA.clientID)
      /\ \A g \in Range(PA.docs), sv \in SUBSET Ops :
           last'.op = "message" /\ last'.buf = step1Frame(g, sv) =>
             Sends(PA'.out) = <<Ev("send", last'.s, step2Frame(g, PA.ydocs[g] \ sv), "")>> ]_vars


StatusNames == {"status:connecting", "status:connected", "status:disconnected"}

\* the status events among the effects of a handler, in order
Statuses(out) ==
  LET evs == SelectSeq(out, LAMBDA e : e.kind = "emit" /\ e.name \in StatusNames)
  IN [i \in 1..Len(evs) |-> evs[i].name]

\* the status the provider emitted last, read off its sockets: the current
\* socket has opened or not; without one, the last socket had opened or not
LastStatus(pr) ==
  IF pr.ws /= 0
    THEN IF pr.sockets[pr.ws].opened THEN "status:connected" ELSE "status:connecting"
  ELSE IF Len(pr.sockets) = 0 THEN "none"
  ELSE IF pr.sockets[Len(pr.sockets)].opened THEN "status:disconnected"
  ELSE "status:connecting"

\* what the claim allows after status prev
Follows(prev, cur) ==
  /\ cur = "status:connected" => prev = "status:connecting"
  /\ cur = "status:disconnected" => prev = "status:connected"

\* C39: in the sequence of status events of a provider every 'connected'
\* comes right after a 'connecting' and every 'disconnected' right after a
\* 'connected'; the close of a socket that never opened emits no status, so
\* two 'connecting' may follow each other but two 'connected' or two
\* 'disconnected' may not.  (LastStatus is shown to be the last status
\* emitted: every step leaves it at the last status the step emits, or
\* unchanged if it emits none.)
C39_StatusOrder ==
  [][ LET h == <<LastStatus(PA)>>
                 \o (IF last'.op = "time" THEN <<>> ELSE Statuses(PA'.out))
      IN /\ \A i \in 2..Len(h) : Follows(h[i - 1], h[i])
         /\ LastStatus(PA') = h[Len(h)]
         /\ last'.op = "close" /\ ~last'.opened => Statuses(PA'.out) = <<>> ]_vars

\* 'connected' was emitted on a retry, after two 'connecting' in a row
C39_Witness ==
  /\ last.op = "open"
  /\ Statuses(PA.out) = <<"status:connected">>
  /\ PA.ws >= 2
  /\ ~PA.sockets[PA.ws - 1].opened

\* 'disconnected' was emitted by the close of a socket that had opened
C39_WitnessDisconnected ==
  /\ last.op = "close"
  /\ Statuses(PA.out) = <<"status:disconnected">>


\* SYNC frames that end right after the kind or right after the identifier
TruncatedFrames ==
  { writeVarUint(<<>>, messageSync),
    writeVarString(writeVarUint(<<>>, messageSync), Roomname),
    writeVarString(writeVarUint(<<>>, messageSync), SubGuid) }

\* C40: the SYNC handlers of y-websocket.js and of the TypeScript provider
\* agree in every state on every frame of either transport, a frame that
\* ends right after its kind or its identifier included: the same reply,
\* the same provider afterwards, the same outcome (return or exception).
C40_TwinsEquivalent ==
  \A buf \in ReplyFrames \cup TruncatedFrames, emitSynced \in BOOLEAN :
    syncHandlerJs(Entry(PA), buf, 1, emitSynced) = syncHandler(Entry(PA), buf, 1, emitSynced)

============================================================================
